---- MODULE Spec2Model ----
(***************************************************************************)
(* A model of the EventEmitterMixin of @silvermine/event-emitter           *)
(* (src/index.js with src/lib/find.js, src/lib/reject.js and               *)
(* src/lib/is-array-of-strings.js).                                        *)
(*                                                                         *)
(* Program state: the _eventListeners hash of every host object and the    *)
(* microtask queue that holds the Promise.resolve().then(...) callbacks    *)
(* scheduled by emit.  History state: the calls made so far, the listener  *)
(* invocations observed so far, and the calls the client still makes.      *)
(***************************************************************************)
EXTENDS Integers, Sequences, FiniteSets, TLC

VARIABLES
    _eventListeners,  \* host -> the host's this._eventListeners
    microtasks,       \* the pending then-callbacks, oldest first
    emitCount,        \* number of emit calls that returned so far
    history,          \* the on/once/off/emit calls that returned so far, in order
    calls,            \* the listener invocations made so far, in order
    plan,             \* the calls the client program still makes
    outcome,          \* the latest call: what it returned or that it threw
    emitted           \* per emit call that returned: the host, the names and
                      \* the registrations of the host when the call was made

vars ==
    <<_eventListeners, microtasks, emitCount, history, calls, plan, outcome,
      emitted>>

-----------------------------------------------------------------------------
(* JavaScript values *)

\* the value undefined: an omitted argument, a missing property
Undefined == "undefined"

\* the value null
Null == "null"

\* objects that mix the EventEmitterMixin in
Hosts == {"emitter1", "emitter2"}

\* event name strings
Events == {"a", "b"}

\* the strings of the model: the event names and a string with a space in it
Strings == Events \cup {"a b"}

\* listener functions, compared by identity
Listeners == {"f", "g"}

\* context values: undefined and two distinct objects
Contexts == {Undefined, "c1", "c2"}

\* argument lists passed to emit after the event names
ArgLists == {<<>>, <<"x", "y">>}

\* a string passed as eventNames
Str(s) == [type |-> "string", items |-> <<s>>]

\* an array passed as eventNames
Arr(q) == [type |-> "array", items |-> q]

\* eventNames omitted
NoNames == [type |-> "undefined", items |-> <<>>]

\* null passed as eventNames
NullNames == [type |-> "null", items |-> <<>>]

\* typeof v === 'string' for an element of an array
IsString(v) == v \in Strings

\* the property keys of this._eventListeners: a key that is not a string is
\* converted to one, undefined to 'undefined'
Keys == Strings \cup {Undefined}

\* typeof v === 'function'
IsFunction(v) == v \in Listeners \cup {"oneOffEventListener"}

\* !v for a listener argument
Falsy(v) == v \in {Undefined, Null}

\* !eventNames
FalsyNames(o) ==
    o.type \in {"undefined", "null"} \/ (o.type = "string" /\ o.items[1] = "")

\* the value of hash[eventName] when the key is missing
UndefinedList == [isArray |-> FALSE, items |-> <<>>]

\* an array value
List(q) == [isArray |-> TRUE, items |-> q]

\* this._eventListeners before it is created
NoHash == [exists |-> FALSE, at |-> [e \in Keys |-> UndefinedList]]

\* the object literal {}
EmptyHash == [exists |-> TRUE, at |-> [e \in Keys |-> UndefinedList]]

\* the set of elements of a sequence
Range(q) == {q[i] : i \in DOMAIN q}

-----------------------------------------------------------------------------
(* src/lib *)

\* the result of find when nothing matches
NotFound == [found |-> FALSE, index |-> 0]

\* lib/find: the first item of arr for which testFn is truthy.  testFn is a
\* function on the items of arr.
find(arr, testFn) ==
    IF ~arr.isArray
    THEN NotFound
    ELSE LET hits == {i \in DOMAIN arr.items : testFn[arr.items[i]]}
         IN  IF hits = {}
             THEN NotFound
             ELSE [found |-> TRUE,
                   index |-> CHOOSE i \in hits : \A j \in hits : i <= j]

RECURSIVE filter(_, _)
\* Array.prototype.filter with the test negated, as reject calls it
filter(items, testFn) ==
    IF items = <<>>
    THEN <<>>
    ELSE IF ~testFn[Head(items)]
         THEN <<Head(items)>> \o filter(Tail(items), testFn)
         ELSE filter(Tail(items), testFn)

\* lib/reject: a new array without the items for which testFn is truthy
reject(arr, testFn) ==
    LET targetArray == IF arr.isArray THEN arr ELSE List(<<>>)
    IN  filter(targetArray.items, testFn)

RECURSIVE reduce(_, _)
\* o.reduce(reducer, true) of lib/is-array-of-strings
reduce(items, memo) ==
    IF items = <<>>
    THEN memo
    ELSE reduce(Tail(items), memo /\ IsString(Head(items)))

\* a variant of isArrayOfStrings without the test of the length
isArrayOfStringsOrEmpty(o) ==
    o.type = "array" /\ reduce(o.items, TRUE)

\* lib/is-array-of-strings
isArrayOfStrings(o) ==
    o.type = "array" /\ Len(o.items) > 0 /\ reduce(o.items, TRUE)

-----------------------------------------------------------------------------
(* src/index.js: the private methods, as functions of this._eventListeners *)

_ensureListenersHashExists(hash) ==
    IF ~hash.exists THEN EmptyHash ELSE hash

\* the test function _findEventListener passes to find
findTest(arr, listener, context) ==
    [eventListener \in Range(arr.items) |->
        eventListener.listener = listener /\ eventListener.context = context]

_findEventListener(hash, eventName, listener, context) ==
    find(hash.at[eventName],
         findTest(hash.at[eventName], listener, context))

\* a variant of _addEventListener that looks for the listener function alone
_addEventListenerByFunction(hash, eventName, listener, context, callback) ==
    LET h1 == _ensureListenersHashExists(hash)
        h2 == [h1 EXCEPT !.at[eventName] =
                  IF @.isArray THEN @ ELSE List(<<>>)]
    IN  IF \A i \in DOMAIN h2.at[eventName].items :
               h2.at[eventName].items[i].listener # listener
        THEN [h2 EXCEPT !.at[eventName] = List(Append(@.items,
                 [callback |-> IF IsFunction(callback) THEN callback ELSE listener,
                  listener |-> listener,
                  context |-> context]))]
        ELSE h2

\* a variant of _addEventListener that never looks for an existing listener
_addEventListenerAlways(hash, eventName, listener, context, callback) ==
    LET h1 == _ensureListenersHashExists(hash)
        h2 == [h1 EXCEPT !.at[eventName] =
                  IF @.isArray THEN @ ELSE List(<<>>)]
    IN  [h2 EXCEPT !.at[eventName] = List(Append(@.items,
            [callback |-> IF IsFunction(callback) THEN callback ELSE listener,
             listener |-> listener,
             context |-> context]))]

_addEventListener(hash, eventName, listener, context, callback) ==
    LET h1 == _ensureListenersHashExists(hash)
        h2 == [h1 EXCEPT !.at[eventName] =
                  IF @.isArray THEN @ ELSE List(<<>>)]
        existingListener == _findEventListener(h2, eventName, listener, context)
    IN  IF ~existingListener.found
        THEN [h2 EXCEPT !.at[eventName] = List(Append(@.items,
                 [callback |-> IF IsFunction(callback) THEN callback ELSE listener,
                  listener |-> listener,
                  context |-> context]))]
        ELSE h2

\* a variant of rejectTest that never compares the listener function
rejectTestAnyListener(arr, listener, context) ==
    [eventListener \in Range(arr.items) |->
        IF context = Undefined THEN TRUE ELSE eventListener.context = context]

\* a variant of rejectTest that always compares the context
rejectTestExact(arr, listener, context) ==
    [eventListener \in Range(arr.items) |->
        eventListener.listener = listener /\ eventListener.context = context]

\* a variant of rejectTest that never compares the context
rejectTestAnyContext(arr, listener, context) ==
    [eventListener \in Range(arr.items) |-> eventListener.listener = listener]

\* the test function _removeEventListener passes to reject
rejectTest(arr, listener, context) ==
    [eventListener \in Range(arr.items) |->
        eventListener.listener = listener
        /\ (IF context = Undefined THEN TRUE ELSE eventListener.context = context)]

\* a variant of _removeEventListener that, given a context and no listener,
\* removes the listeners of that context alone
_removeEventListenerOfContext(hash, eventName, listener, context) ==
    LET h1 == _ensureListenersHashExists(hash)
    IN  IF Falsy(listener)
        THEN [h1 EXCEPT !.at[eventName] =
                 List(reject(@, rejectTestAnyListener(@, listener, context)))]
        ELSE [h1 EXCEPT !.at[eventName] =
                 List(reject(@, rejectTest(@, listener, context)))]

\* a variant of _removeEventListener that, given no listener, empties the
\* whole hash as off() does
_removeEventListenerResetting(hash, eventName, listener, context) ==
    LET h1 == _ensureListenersHashExists(hash)
    IN  IF Falsy(listener)
        THEN EmptyHash
        ELSE [h1 EXCEPT !.at[eventName] =
                 List(reject(@, rejectTest(@, listener, context)))]

_removeEventListener(hash, eventName, listener, context) ==
    LET h1 == _ensureListenersHashExists(hash)
    IN  IF Falsy(listener)
        THEN [h1 EXCEPT !.at[eventName] = List(<<>>)]
        ELSE [h1 EXCEPT !.at[eventName] =
                 List(reject(@, rejectTest(@, listener, context)))]

RECURSIVE removeEach(_, _, _, _)
\* eventNamesList.forEach(... this._removeEventListener(eventName, listener, context))
removeEach(hash, eventNamesList, listener, context) ==
    IF eventNamesList = <<>>
    THEN hash
    ELSE removeEach(
             _removeEventListener(hash, Head(eventNamesList), listener, context),
             Tail(eventNamesList), listener, context)

RECURSIVE addEach(_, _, _, _)
\* eventNamesList.forEach(... this._addEventListener(eventName, listener, context))
addEach(hash, eventNamesList, listener, context) ==
    IF eventNamesList = <<>>
    THEN hash
    ELSE addEach(
             _addEventListener(hash, Head(eventNamesList), listener, context, Undefined),
             Tail(eventNamesList), listener, context)

\* Array.isArray(eventNames) ? eventNames : [ eventNames ]
eventNamesList(eventNames) == eventNames.items

-----------------------------------------------------------------------------
(* src/index.js: the public methods *)

\* on throws
onThrows(eventNames, listener) ==
    \/ (eventNames.type # "string" /\ ~isArrayOfStrings(eventNames))
    \/ ~IsFunction(listener)

\* a variant of on that adds the listener without removing it first
onWithoutRemoving(hash, eventNames, listener, context) ==
    addEach(hash, eventNamesList(eventNames), listener, context)

\* this._eventListeners after on(eventNames, listener, context) returns
on(hash, eventNames, listener, context) ==
    addEach(removeEach(hash, eventNamesList(eventNames), listener, context),
            eventNamesList(eventNames), listener, context)

\* once throws
onceThrows(eventName, listener) ==
    \/ eventName.type # "string"
    \/ ~IsFunction(listener)

\* a variant of once that removes the listener before it adds the wrapper
onceOverriding(hash, eventName, listener, context) ==
    _addEventListener(
        _removeEventListener(hash, eventName.items[1], listener, context),
        eventName.items[1], listener, context, "oneOffEventListener")

\* this._eventListeners after once(eventName, listener, context) returns
once(hash, eventName, listener, context) ==
    _addEventListener(hash, eventName.items[1], listener, context,
                      "oneOffEventListener")

\* a variant of off that removes nothing when it is given no event names
offNothing(hash, eventNames, listener, context) ==
    IF FalsyNames(eventNames)
    THEN hash
    ELSE removeEach(hash, eventNamesList(eventNames), listener, context)

\* a variant of off that handles only the first of the event names
offFirstName(hash, eventNames, listener, context) ==
    IF FalsyNames(eventNames)
    THEN EmptyHash
    ELSE _removeEventListener(hash, Head(eventNamesList(eventNames)),
                              listener, context)

\* a variant of off that empties the registry only when it is given no
\* argument at all
offBareReset(hash, eventNames, listener, context) ==
    IF FalsyNames(eventNames)
    THEN IF Falsy(listener) /\ context = Undefined THEN EmptyHash ELSE hash
    ELSE removeEach(hash, eventNamesList(eventNames), listener, context)

\* this._eventListeners after off(eventNames, listener, context) returns
off(hash, eventNames, listener, context) ==
    IF FalsyNames(eventNames)
    THEN EmptyHash
    ELSE removeEach(hash, eventNamesList(eventNames), listener, context)

\* emit throws
emitThrows(eventNames) ==
    eventNames.type # "string" /\ ~isArrayOfStrings(eventNames)

\* the then-callback _emitEvent creates for one registered listener
Task(self, eventName, listener, eventArgs, id) ==
    [self |-> self, eventName |-> eventName, listener |-> listener,
     eventArgs |-> eventArgs, emit |-> id]

\* a variant of scheduled that hands every listener to two then-callbacks
scheduledTwice(self, eventName, items, eventArgs, id) ==
    [i \in DOMAIN items |-> Task(self, eventName, items[i], eventArgs, id)]
    \o [i \in DOMAIN items |-> Task(self, eventName, items[i], eventArgs, id)]

\* the then-callbacks _emitEvent schedules, in the order of the forEach
scheduled(self, eventName, items, eventArgs, id) ==
    [i \in DOMAIN items |-> Task(self, eventName, items[i], eventArgs, id)]

\* a variant of Call that passes no arguments to the listener
CallWithoutArgs(task) ==
    [self |-> task.self, eventName |-> task.eventName,
     listener |-> task.listener.listener, this |-> task.listener.context,
     args |-> <<>>, emit |-> task.emit]

\* one invocation of a listener function: listener.apply(this, args)
Call(task) ==
    [self |-> task.self, eventName |-> task.eventName,
     listener |-> task.listener.listener, this |-> task.listener.context,
     args |-> task.eventArgs, emit |-> task.emit]

\* the wrapper that once registers, run as the callback of a then-callback:
\* the hash afterwards and the listener invocations made
oneOffEventListener(hash, task, threw) ==
    LET thisEventListener ==
            _findEventListener(hash, task.eventName, task.listener.listener,
                               task.listener.context)
    IN  IF thisEventListener.found
        THEN [hash |-> IF threw
                       THEN hash
                       ELSE _removeEventListener(hash, task.eventName,
                                task.listener.listener, task.listener.context),
              called |-> <<Call(task)>>]
        ELSE [hash |-> hash, called |-> <<>>]

\* a variant of callback that invokes no listener whose registration has
\* been removed
callbackIfRegistered(hash, task, threw) ==
    IF _findEventListener(hash, task.eventName, task.listener.listener,
                          task.listener.context).found
    THEN IF task.listener.callback = "oneOffEventListener"
         THEN oneOffEventListener(hash, task, threw)
         ELSE [hash |-> hash, called |-> <<Call(task)>>]
    ELSE [hash |-> hash, called |-> <<>>]

\* a variant of callback that looks the listener up when it runs: it takes
\* the newest registration of the event instead of the one emit found
callbackLatest(hash, task, threw) ==
    LET items == hash.at[task.eventName].items
        t == IF items = <<>>
             THEN task
             ELSE [task EXCEPT !.listener = items[Len(items)]]
    IN  IF t.listener.callback = "oneOffEventListener"
        THEN oneOffEventListener(hash, t, threw)
        ELSE [hash |-> hash, called |-> <<Call(t)>>]

\* listener.callback.apply(listener.context, eventArgs)
callback(hash, task, threw) ==
    IF task.listener.callback = "oneOffEventListener"
    THEN oneOffEventListener(hash, task, threw)
    ELSE [hash |-> hash, called |-> <<Call(task)>>]

RECURSIVE invokeEach(_, _)
\* the callbacks of tasks applied one after the other, none of them throwing
invokeEach(st, tasks) ==
    IF tasks = <<>>
    THEN st
    ELSE LET r == callback(st.hash, Head(tasks), FALSE)
         IN  invokeEach([st EXCEPT !.hash = r.hash, !.called = @ \o r.called],
                        Tail(tasks))

\* a variant of _emitEvent that applies the callbacks before it returns
\* instead of handing them to Promise.resolve().then
_emitEventSynchronously(st, self, eventName, eventArgs, id) ==
    LET h1 == _ensureListenersHashExists(st.hash)
    IN  invokeEach([st EXCEPT !.hash = h1],
                   scheduled(self, eventName, h1.at[eventName].items, eventArgs, id))

\* a variant of _emitEvent that schedules nothing for a listener that has a
\* then-callback pending
_emitEventCoalescing(st, self, eventName, eventArgs, id) ==
    LET h1 == _ensureListenersHashExists(st.hash)
        idle(t) == \A i \in DOMAIN st.queue : st.queue[i].listener # t.listener
    IN  [st EXCEPT !.hash = h1,
                   !.queue = @ \o SelectSeq(
                       scheduled(self, eventName, h1.at[eventName].items,
                                 eventArgs, id), idle)]

\* a variant of _emitEvent that forgets the listeners of the event once it has
\* scheduled them
_emitEventConsuming(st, self, eventName, eventArgs, id) ==
    LET h1 == _ensureListenersHashExists(st.hash)
    IN  IF ~h1.at[eventName].isArray
        THEN [st EXCEPT !.hash = h1]
        ELSE [st EXCEPT !.hash = [h1 EXCEPT !.at[eventName] = List(<<>>)],
                        !.queue = @ \o scheduled(self, eventName,
                                      h1.at[eventName].items, eventArgs, id)]

\* a variant of _emitEvent whose then-callbacks run before the ones that are
\* already pending
_emitEventPrepending(st, self, eventName, eventArgs, id) ==
    LET h1 == _ensureListenersHashExists(st.hash)
    IN  IF ~h1.at[eventName].isArray
        THEN [st EXCEPT !.hash = h1]
        ELSE [st EXCEPT !.hash = h1,
                        !.queue = scheduled(self, eventName,
                                      h1.at[eventName].items, eventArgs, id) \o @]

\* _emitEvent on st: this._eventListeners (hash), the microtask queue (queue)
\* and the listener invocations made so far (called)
_emitEvent(st, self, eventName, eventArgs, id) ==
    LET h1 == _ensureListenersHashExists(st.hash)
    IN  IF ~h1.at[eventName].isArray
        THEN [st EXCEPT !.hash = h1]
        ELSE [st EXCEPT !.hash = h1,
                        !.queue = @ \o scheduled(self, eventName,
                                      h1.at[eventName].items, eventArgs, id)]

RECURSIVE emitEach(_, _, _, _, _)
\* eventNamesList.forEach(... this._emitEvent(eventName, eventArgs))
emitEach(st, self, names, eventArgs, id) ==
    IF names = <<>>
    THEN st
    ELSE emitEach(_emitEvent(st, self, Head(names), eventArgs, id),
                  self, Tail(names), eventArgs, id)

\* a variant of emit that emits every event, whatever names it is given
emitEveryEvent(st, self, eventNames, eventArgs, id) ==
    emitEach(st, self, <<"a", "b">>, eventArgs, id)

\* st after emit(eventNames, ...args) returns
emit(st, self, eventNames, eventArgs, id) ==
    emitEach(st, self, eventNamesList(eventNames), eventArgs, id)

\* a variant of returnThis for a method that ends without a return statement
returnNothing(self) == Undefined

\* return this
returnThis(self) == self

\* a call that throws: this._eventListeners as the call leaves it
Thrown(hash) == [threw |-> TRUE, returned |-> Undefined, hash |-> hash]

\* a call that returns: this._eventListeners as the call leaves it
Returned(self, hash) ==
    [threw |-> FALSE, returned |-> returnThis(self), hash |-> hash]

\* a variant of onCall that tests the names of an array one by one, each
\* right before it registers the listener for it
onCallNameByName(self, hash, eventNames, listener, context) ==
    IF ~IsFunction(listener) \/ eventNames.type \notin {"string", "array"}
    THEN Thrown(hash)
    ELSE IF onThrows(eventNames, listener)
         THEN LET bad == {i \in DOMAIN eventNames.items :
                             ~IsString(eventNames.items[i])}
                  first == IF bad = {}
                           THEN 1
                           ELSE CHOOSE i \in bad : \A j \in bad : i <= j
              IN  Thrown(on(hash, Arr(SubSeq(eventNames.items, 1, first - 1)),
                            listener, context))
         ELSE Returned(self, on(hash, eventNames, listener, context))

\* the call self.on(eventNames, listener, context)
onCall(self, hash, eventNames, listener, context) ==
    IF onThrows(eventNames, listener)
    THEN Thrown(hash)
    ELSE Returned(self, on(hash, eventNames, listener, context))

\* the call self.once(eventName, listener, context)
onceCall(self, hash, eventName, listener, context) ==
    IF onceThrows(eventName, listener)
    THEN Thrown(hash)
    ELSE Returned(self, once(hash, eventName, listener, context))

\* the call self.off(eventNames, listener, context)
offCall(self, hash, eventNames, listener, context) ==
    Returned(self, off(hash, eventNames, listener, context))

\* the call self.emit(eventNames, ...eventArgs): st as the call leaves it
emitCall(st, self, eventNames, eventArgs, id) ==
    IF emitThrows(eventNames)
    THEN [threw |-> TRUE, returned |-> Undefined, st |-> st]
    ELSE [threw |-> FALSE, returned |-> returnThis(self),
          st |-> emit(st, self, eventNames, eventArgs, id)]

-----------------------------------------------------------------------------
(* The client program: the calls made on the hosts *)

\* number of arbitrary registrations made before a scenario starts
MaxPre == 2

\* number of arbitrary calls of the unconstrained client
MaxAny == 2

\* a call of a public method
Op(op, eventNames, listener, context, args) ==
    [op |-> op, self |-> "emitter1", eventNames |-> eventNames,
     listener |-> listener, context |-> context, args |-> args, quiet |-> TRUE,
     sync |-> FALSE, chain |-> FALSE]

\* the call o made in the same synchronous block as the call before it: no
\* then-callback runs between the two
Sync(o) == [o EXCEPT !.sync = TRUE]

\* the call o chained to the call before it: made on what that call returned
Chain(o) == [o EXCEPT !.sync = TRUE, !.chain = TRUE]

\* the call o made on the second host
Other(o) == [o EXCEPT !.self = "emitter2"]

\* k steps of the same kind
Repeat(step, k) == [i \in 1..k |-> step]

\* a step of a plan that stands for any one call of a set of calls
Wild(kind) == Op(kind, NoNames, Undefined, Undefined, <<>>)

\* the registrations a scenario may start from: on or once of a single name
PreOps ==
    {Op(k, Str(b[1]), b[2], b[3], <<>>) :
        k \in {"on", "once"},
        b \in {<<"a", "f", Undefined>>, <<"a", "f", "c1">>,
               <<"a", "g", Undefined>>, <<"b", "f", Undefined>>}}

\* the eventNames arguments of the unconstrained client
AnyNames == {Str("a"), Str("b"), Arr(<<"a", "b">>)}

\* the (listener, context) arguments of the unconstrained client
AnyBindings ==
    {<<"f", Undefined>>, <<"f", "c1">>, <<"f", "c2">>, <<"g", Undefined>>}

\* the calls of the unconstrained client
AnyOps ==
    {Op("on", n, b[1], b[2], <<>>) : n \in AnyNames, b \in AnyBindings}
    \cup {Op("once", Str(e), b[1], b[2], <<>>) : e \in Events, b \in AnyBindings}
    \cup {Op("off", NoNames, Undefined, Undefined, <<>>)}
    \cup {Op("off", n, Undefined, Undefined, <<>>) : n \in AnyNames}
    \cup {Op("off", n, b[1], b[2], <<>>) : n \in AnyNames, b \in AnyBindings}
    \cup {Op("emit", n, Undefined, Undefined, a) : n \in AnyNames, a \in ArgLists}

\* emit(e)
EmitOp(e) == Op("emit", Str(e), Undefined, Undefined, <<>>)

\* the eventNames arguments that name event a, alone, with b, or twice
NamesWithA == {Str("a"), Arr(<<"a", "b">>), Arr(<<"a", "a">>)}

\* on(names, f, c); emit(e) for a name e of names
OnEmitBodies ==
    UNION {{<<Op("on", n, "f", c, <<>>), EmitOp(e)>> :
               c \in Contexts, e \in Range(n.items)} : n \in NamesWithA}

\* on(a, f, c); on(a, f, d); emit(a)
OnOnEmitBodies ==
    {<<Op("on", Str("a"), "f", c, <<>>), Op("on", Str("a"), "f", d, <<>>),
       EmitOp("a")>> : c \in Contexts, d \in Contexts}

\* once(a, f, c); emit(a); emit(a)
OnceEmitBodies ==
    {<<Op("once", Str("a"), "f", c, <<>>), EmitOp("a"), EmitOp("a")>> :
        c \in Contexts}

\* once(a, f, c); on(names, f, c); emit(e); emit(e); emit(e)
OnceOnEmitBodies ==
    UNION {{<<Op("once", Str("a"), "f", c, <<>>), Op("on", n, "f", c, <<>>),
              EmitOp(e), EmitOp(e), EmitOp(e)>> :
               c \in Contexts, e \in Range(n.items)} :
           n \in {Str("a"), Arr(<<"a", "b">>)}}

\* on(a, f, c); once(a, f, c); emit(a); emit(a); emit(a)
OnOnceEmitBodies ==
    {<<Op("on", Str("a"), "f", c, <<>>), Op("once", Str("a"), "f", c, <<>>),
       EmitOp("a"), EmitOp("a"), EmitOp("a")>> : c \in Contexts}

\* off(names), off(names, f) or off(names, f, c); emit(e)
OffEmitBodies ==
    UNION {{<<Op("off", n, b[1], b[2], <<>>), EmitOp(e)>> :
               b \in {<<Undefined, Undefined>>, <<"f", Undefined>>, <<"f", "c1">>},
               e \in Range(n.items)} :
           n \in {Str("a"), Arr(<<"a", "b">>)}}

\* off(); emit(names)
OffAllEmitBodies ==
    {<<Op("off", NoNames, Undefined, Undefined, <<>>),
       Op("emit", n, Undefined, Undefined, <<>>)>> : n \in AnyNames}

\* off(a, f) or off(a, f, c); emit(b)
OffOtherEmitBodies ==
    {<<Op("off", Str("a"), "f", c, <<>>), EmitOp("b")>> : c \in {Undefined, "c1"}}

\* on or once of (a, f, c); emit(a, x, y); emit(a) in the same block
ArgsBodies ==
    {<<Op(k, Str("a"), "f", c, <<>>),
       Op("emit", Str("a"), Undefined, Undefined, <<"x", "y">>),
       Sync(EmitOp("a"))>> : k \in {"on", "once"}, c \in {Undefined, "c1"}}

\* on(a, f, c); emit(a) two or three times in one block
OnEmitsBodies ==
    {<<Op("on", Str("a"), "f", c, <<>>), EmitOp("a")>> \o
         Repeat(Sync(EmitOp("a")), n) : c \in {Undefined, "c1"}, n \in 1..2}

\* the off calls that remove the registration of (a, f, c)
OffsOf(c) ==
    {Op("off", NoNames, Undefined, Undefined, <<>>),
     Op("off", Str("a"), Undefined, Undefined, <<>>),
     Op("off", Str("a"), "f", Undefined, <<>>),
     Op("off", Str("a"), "f", c, <<>>)}

\* on(a, f, c); emit(a); off in the same block; emit(a)
OnEmitOffBodies ==
    UNION {{<<Op("on", Str("a"), "f", c, <<>>), EmitOp("a"), Sync(o),
              EmitOp("a")>> : o \in OffsOf(c)} : c \in {Undefined, "c1"}}

\* once(a, f, c); emit(a); off in the same block; then nothing, or on or
\* once of (a, f, c), still in the same block
OnceEmitOffBodies ==
    UNION {{<<Op("once", Str("a"), "f", c, <<>>), EmitOp("a"), Sync(o)>> \o t :
               o \in {Op("off", NoNames, Undefined, Undefined, <<>>),
                      Op("off", Str("a"), "f", c, <<>>)},
               t \in {<<>>, <<Sync(Op("on", Str("a"), "f", c, <<>>))>>,
                      <<Sync(Op("once", Str("a"), "f", c, <<>>))>>}} :
           c \in {Undefined, "c1"}}

\* the scenarios
Bodies ==
    OnEmitBodies \cup OnOnEmitBodies \cup OnceEmitBodies \cup OnceOnEmitBodies
    \cup OnOnceEmitBodies \cup OffEmitBodies \cup OffAllEmitBodies
    \cup OffOtherEmitBodies \cup ArgsBodies \cup OnEmitsBodies
    \cup OnEmitOffBodies \cup OnceEmitOffBodies

\* the calls the second host makes
OtherOps ==
    {Other(o) : o \in
        {Op("on", Str("a"), "f", Undefined, <<>>),
         Op("once", Str("a"), "f", "c1", <<>>),
         Op("off", NoNames, Undefined, Undefined, <<>>),
         Op("off", Str("a"), "f", Undefined, <<>>),
         EmitOp("a"),
         Op("emit", Arr(<<"a", "b">>), Undefined, Undefined, <<>>)}}

\* eventNames arguments that are neither a string nor an array of strings
BadNames == {NoNames, Arr(<<>>), Arr(<<"a", Undefined>>), Arr(<<Undefined, "b">>)}

\* listener arguments that are not functions: undefined and an object
BadListeners == {Undefined, "c1"}

\* calls with an argument the documentation does not allow
BadOps ==
    {Op("on", n, "f", c, <<>>) : n \in BadNames, c \in {Undefined, "c1"}}
    \cup {Op("on", n, l, Undefined, <<>>) :
             n \in {Str("a"), Arr(<<"a", "b">>)}, l \in BadListeners}
    \cup {Op("once", n, "f", Undefined, <<>>) :
             n \in {NoNames, Arr(<<"a">>), Arr(<<"a", "b">>)}}
    \cup {Op("once", Str("a"), l, Undefined, <<>>) : l \in BadListeners}
    \cup {Op("emit", n, Undefined, Undefined, <<>>) : n \in BadNames}
    \cup {Op("off", n, l, Undefined, <<>>) :
             n \in {Arr(<<>>), Arr(<<"a", Undefined>>)}, l \in {Undefined, "f"}}
    \cup {Op("off", Str("a"), "c1", Undefined, <<>>)}

\* two registrations and emit(a), then in the same block a call with a bad
\* argument, and emit(a, b) later
BadPlans ==
    {<<Wild("pre"), Wild("pre"), EmitOp("a"), Sync(Wild("bad")),
       Op("emit", Arr(<<"a", "b">>), Undefined, Undefined, <<>>)>>}

\* calls with the string 'a b' as the event names: on('a b', f, c); emit(a);
\* emit(b), on(a, f, c); emit('a b'), on(a, f, c); off('a b'); emit(a), and
\* once('a b', f, c); emit(a)
SpacedPlans ==
    UNION {{<<Op("on", Str("a b"), "f", c, <<>>), EmitOp("a"), EmitOp("b")>>,
            <<Op("on", Str("a"), "f", c, <<>>), EmitOp("a b")>>,
            <<Op("on", Str("a"), "f", c, <<>>),
              Op("off", Str("a b"), Undefined, Undefined, <<>>), EmitOp("a")>>,
            <<Op("once", Str("a b"), "f", c, <<>>), EmitOp("a")>>} :
           c \in {Undefined, "c1"}}

\* chained calls: each call but the first is made on what the call before
\* it returned
ChainPlans ==
    UNION {{<<Op("on", Str("a"), "f", c, <<>>),
              Chain(Op("off", Str("a"), "f", c, <<>>)), Chain(EmitOp("a"))>>,
            <<Op("on", Str("a"), "f", c, <<>>), Chain(EmitOp("a")),
              Chain(Op("off", Str("a"), "f", c, <<>>)), Chain(EmitOp("a"))>>,
            <<Op("off", NoNames, Undefined, Undefined, <<>>),
              Chain(Op("once", Str("a"), "f", c, <<>>)),
              Chain(Op("on", Arr(<<"a", "b">>), "g", Undefined, <<>>)),
              Chain(Op("emit", Arr(<<"a", "b">>), Undefined, Undefined, <<>>))>>,
            <<EmitOp("a"), Chain(Op("once", Str("b"), "f", c, <<>>)),
              Chain(EmitOp("b")),
              Chain(Op("off", Str("b"), Undefined, Undefined, <<>>))>>} :
           c \in {Undefined, "c1"}}

\* once(a, f, c); emit(a); on(a, f, c) in the same block; emit(a) later
PendingPlans ==
    {<<Op("once", Str("a"), "f", c, <<>>), EmitOp("a"),
       Sync(Op("on", Str("a"), "f", c, <<>>)), EmitOp("a")>> :
        c \in {Undefined, "c1"}}

\* on or once of (a, f, c); emit([a, a]); emit(a)
DupPlans ==
    {<<Op(k, Str("a"), "f", c, <<>>),
       Op("emit", Arr(<<"a", "a">>), Undefined, Undefined, <<>>),
       EmitOp("a")>> : k \in {"on", "once"}, c \in {Undefined, "c1"}}

\* on(a, f, c); emit(a); on or once of (a, g); emit(a)
LatePlans ==
    {<<Op("on", Str("a"), "f", c, <<>>), EmitOp("a"),
       Op(k, Str("a"), "g", Undefined, <<>>), EmitOp("a")>> :
        k \in {"on", "once"}, c \in {Undefined, "c1"}}

\* two registrations; off with a first argument that is undefined, null, the
\* empty string or an empty array, with and without a listener and a
\* context; emit(a, b)
ResetPlans ==
    {<<Wild("pre"), Wild("pre"), Op("off", n, b[1], b[2], <<>>),
       Op("emit", Arr(<<"a", "b">>), Undefined, Undefined, <<>>)>> :
        n \in {NoNames, NullNames, Str(""), Arr(<<>>)},
        b \in {<<Undefined, Undefined>>, <<"f", Undefined>>, <<"f", "c1">>,
               <<Undefined, "c1">>}}

\* two registrations; off of one name or of two with a context and a listener
\* that is undefined or null; emit(a, b)
ContextOnlyPlans ==
    {<<Wild("pre"), Wild("pre"), Op("off", n, l, c, <<>>),
       Op("emit", Arr(<<"a", "b">>), Undefined, Undefined, <<>>)>> :
        n \in {Str("a"), Arr(<<"a", "b">>)},
        l \in {Undefined, Null},
        c \in {"c1", "c2"}}

\* the programs of two hosts: calls of one host between calls of the other
HostPlans ==
    {<<Wild("other"), Wild("any"), Wild("other")>>,
     <<Wild("pre"), Wild("other"), Wild("any")>>}

\* the client programs: up to MaxPre arbitrary registrations and then a
\* scenario, or MaxAny arbitrary calls, or the calls of two hosts
Plans ==
    {Repeat(Wild("pre"), k) \o b : k \in 0..MaxPre, b \in Bodies}
    \cup {Repeat(Wild("any"), MaxAny)}
    \cup HostPlans
    \cup BadPlans
    \cup SpacedPlans
    \cup ChainPlans
    \cup PendingPlans
    \cup DupPlans
    \cup LatePlans
    \cup ResetPlans
    \cup ContextOnlyPlans

\* the calls of one method the client may make next
Choices(kind) ==
    IF plan = <<>>
    THEN {}
    ELSE LET step == Head(plan)
         IN  IF step.op = kind THEN {step}
             ELSE IF step.op = "pre" THEN {o \in PreOps : o.op = kind}
             ELSE IF step.op = "any" THEN {o \in AnyOps : o.op = kind}
             ELSE IF step.op = "other" THEN {o \in OtherOps : o.op = kind}
             ELSE IF step.op = "bad"
                  THEN {[o EXCEPT !.sync = step.sync] : o \in
                           {b \in BadOps : b.op = kind}}
             ELSE {}

\* the call o returned; the history keeps whether no then-callback was
\* pending when it was made
Made(o) ==
    /\ history' = Append(history, [o EXCEPT !.quiet = (microtasks = <<>>)])
    /\ plan' = Tail(plan)

\* no call made yet
NoCall == Op("none", NoNames, Undefined, Undefined, <<>>)

\* the object a call is made on: the host, or for a chained call whatever
\* the call before it returned
Receiver(o) == IF o.chain THEN outcome.returned ELSE o.self

\* the call o on self has ended as r says: it returned, or it threw and the
\* client caught the error
Ended(o, self, r) ==
    /\ outcome' = [call |-> [o EXCEPT !.self = self], threw |-> r.threw,
                   returned |-> r.returned]
    /\ IF r.threw
       THEN history' = history /\ plan' = Tail(plan)
       ELSE Made([o EXCEPT !.self = self])

\* the chained call o on a value that is no host: a TypeError before any
\* method is entered
NoMethod(o) ==
    /\ outcome' = [call |-> o, threw |-> TRUE, returned |-> Undefined]
    /\ plan' = Tail(plan)
    /\ UNCHANGED <<_eventListeners, microtasks, emitCount, history, calls,
                   emitted>>

-----------------------------------------------------------------------------
(* The state machine *)

\* a variant of store that keeps one hash for all the hosts, as a property
\* of the mixin object would be
storeShared(hashes, self, hash) == [h \in Hosts |-> hash]

\* this._eventListeners = hash, for the host self
store(hashes, self, hash) == [hashes EXCEPT ![self] = hash]

\* a variant of settle in which a callback that throws takes the pending
\* then-callbacks with it
settleAborting(queue, threw) == IF threw THEN <<>> ELSE Tail(queue)

\* a variant of settle that leaves a then-callback whose listener threw in
\* the queue, to be run again
settleRetrying(queue, threw) == IF threw THEN queue ELSE Tail(queue)

\* the microtask queue after its oldest then-callback has run: the promise
\* of the callback is fulfilled or, when the listener threw, rejected, and
\* nobody handles the rejection
settle(queue, threw) == Tail(queue)

\* a variant of pendingAfter in which a call of on, once or off cancels the
\* then-callbacks of the listeners that are no longer registered
pendingRegistered(queue, self, hash) ==
    LET kept(t) == \/ t.self # self
                   \/ t.listener \in Range(hash.at[t.eventName].items)
    IN  SelectSeq(queue, kept)

\* the microtask queue after a call of on, once or off that leaves hash as
\* the registry of self: these methods hold no reference to the
\* then-callbacks that emit handed to Promise.resolve().then
pendingAfter(queue, self, hash) == queue

Init ==
    /\ _eventListeners = [h \in Hosts |-> NoHash]
    /\ microtasks = <<>>
    /\ emitCount = 0
    /\ history = <<>>
    /\ calls = <<>>
    /\ plan \in Plans
    /\ outcome = [call |-> NoCall, threw |-> FALSE, returned |-> Undefined]
    /\ emitted = <<>>

\* a host's on(eventNames, listener, context) returns or throws
On ==
    \E o \in Choices("on") :
        LET self == Receiver(o)
        IN  IF self \notin Hosts
            THEN NoMethod(o)
            ELSE LET r == onCall(self, _eventListeners[self], o.eventNames,
                                 o.listener, o.context)
                 IN  /\ _eventListeners' = store(_eventListeners, self, r.hash)
                     /\ Ended(o, self, r)
                     /\ microtasks' = pendingAfter(microtasks, self, r.hash)
                     /\ UNCHANGED <<emitCount, calls, emitted>>

\* a host's once(eventName, listener, context) returns or throws
Once ==
    \E o \in Choices("once") :
        LET self == Receiver(o)
        IN  IF self \notin Hosts
            THEN NoMethod(o)
            ELSE LET r == onceCall(self, _eventListeners[self], o.eventNames,
                                   o.listener, o.context)
                 IN  /\ _eventListeners' = store(_eventListeners, self, r.hash)
                     /\ Ended(o, self, r)
                     /\ microtasks' = pendingAfter(microtasks, self, r.hash)
                     /\ UNCHANGED <<emitCount, calls, emitted>>

\* a host's off(eventNames, listener, context) returns
Off ==
    \E o \in Choices("off") :
        LET self == Receiver(o)
        IN  IF self \notin Hosts
            THEN NoMethod(o)
            ELSE LET r == offCall(self, _eventListeners[self], o.eventNames,
                                  o.listener, o.context)
                 IN  /\ _eventListeners' = store(_eventListeners, self, r.hash)
                     /\ Ended(o, self, r)
                     /\ microtasks' = pendingAfter(microtasks, self, r.hash)
                     /\ UNCHANGED <<emitCount, calls, emitted>>

\* a host's emit(eventNames, ...args) returns or throws
Emit ==
    \E o \in Choices("emit") :
        LET self == Receiver(o)
        IN  IF self \notin Hosts
            THEN NoMethod(o)
            ELSE LET r == emitCall([hash |-> _eventListeners[self],
                                    queue |-> microtasks, called |-> calls],
                                   self, o.eventNames, o.args, emitCount + 1)
                 IN  /\ _eventListeners' = store(_eventListeners, self, r.st.hash)
                     /\ microtasks' = r.st.queue
                     /\ calls' = r.st.called
                     /\ emitCount' = IF r.threw THEN emitCount ELSE emitCount + 1
                     /\ emitted' =
                          IF r.threw
                          THEN emitted
                          ELSE Append(emitted,
                                   [self |-> self,
                                    names |-> eventNamesList(o.eventNames),
                                    at |-> _eventListeners[self].at])
                     /\ Ended(o, self, r)

\* the oldest then-callback runs, once the synchronous block that is
\* executing has ended; the listener it invokes returns or throws
Run ==
    /\ microtasks # <<>>
    /\ IF plan = <<>> THEN TRUE ELSE ~Head(plan).sync
    /\ \E threw \in BOOLEAN :
        LET task == Head(microtasks)
            r == callback(_eventListeners[task.self], task, threw)
        IN  /\ _eventListeners' = store(_eventListeners, task.self, r.hash)
            /\ microtasks' = settle(microtasks, threw)
            /\ calls' = calls \o r.called
            /\ UNCHANGED <<emitCount, history, plan, outcome, emitted>>

Next == On \/ Once \/ Off \/ Emit \/ Run

Spec == Init /\ [][Next]_vars

\* a call of the client that continues the synchronous block of the call
\* before it
Continue ==
    /\ plan # <<>>
    /\ Head(plan).sync
    /\ (On \/ Once \/ Off \/ Emit)

\* the client programs that the scheduling is studied on: registrations and
\* then emits and an off in one block, a once listener removed and bound
\* again while its then-callback is pending, emits with arguments, and the
\* calls of two hosts
LivePlans ==
    {Repeat(Wild("pre"), k) \o
         <<EmitOp("a"),
           Sync(Op("emit", Arr(<<"a", "b">>), Undefined, Undefined, <<>>)),
           Sync(Op("off", Str("a"), "f", Undefined, <<>>)),
           EmitOp("a")>> : k \in 0..MaxPre}
    \cup OnceEmitOffBodies \cup ArgsBodies \cup HostPlans

\* the start of such a program
LiveInit ==
    /\ _eventListeners = [h \in Hosts |-> NoHash]
    /\ microtasks = <<>>
    /\ emitCount = 0
    /\ history = <<>>
    /\ calls = <<>>
    /\ plan \in LivePlans
    /\ outcome = [call |-> NoCall, threw |-> FALSE, returned |-> Undefined]
    /\ emitted = <<>>

\* the JavaScript engine runs a synchronous block to its end and then runs
\* the microtasks until none is pending; the client need not start another
\* block
FairSpec == LiveInit /\ [][Next]_vars /\ WF_vars(Continue) /\ WF_vars(Run)

-----------------------------------------------------------------------------
(* Observations on the history and on the registry *)

\* the event names a call was given
Names(o) == Range(o.eventNames.items)

\* the host whose calls the scenarios are read from; the other host makes
\* calls of its own in between
Subject == "emitter1"

\* the call o is on or once (kind) of listener f with context c, e among its names
Registers(o, kind, e, f, c) ==
    /\ o.self = Subject
    /\ o.op = kind /\ e \in Names(o) /\ o.listener = f /\ o.context = c

\* the call o is on or once of listener f for e, with any context
Binds(o, e, f) ==
    /\ o.self = Subject
    /\ o.op \in {"on", "once"} /\ e \in Names(o) /\ o.listener = f

\* the call o is emit(e)
Emits(o, e) ==
    o.self = Subject /\ o.op = "emit" /\ o.eventNames.items = <<e>>

\* the call o is off(names, f, c) with e among the names
Removes(o, e, f, c) ==
    /\ o.self = Subject
    /\ o.op = "off" /\ e \in Names(o) /\ o.listener = f /\ o.context = c

\* the positions in the history of a call of method k1 that is followed at
\* once by a call of method k2
Followed(k1, k2) ==
    {j \in 1..(Len(history) - 1) :
        history[j].op = k1 /\ history[j + 1].op = k2}

\* number of emit calls among the first i calls
EmitsUpTo(i) == Cardinality({j \in 1..i : history[j].op = "emit"})

\* number of invocations of f with this = c made for emit call number id
Invocations(id, f, c) ==
    Cardinality({i \in DOMAIN calls :
        calls[i].emit = id /\ calls[i].listener = f /\ calls[i].this = c})

\* number of invocations of f made for the emit calls after number id
InvokedSince(id, f) ==
    Cardinality({i \in DOMAIN calls : calls[i].emit > id /\ calls[i].listener = f})

\* the registrations of (f, c) under e: their positions in the list
Registrations(self, e, f, c) ==
    {i \in DOMAIN _eventListeners[self].at[e].items :
        /\ _eventListeners[self].at[e].items[i].listener = f
        /\ _eventListeners[self].at[e].items[i].context = c}

\* the registrations of f under e, with any context
Bound(self, e, f) ==
    {i \in DOMAIN _eventListeners[self].at[e].items :
        _eventListeners[self].at[e].items[i].listener = f}

\* nothing is pending: every scheduler turn that was asked for has run
Drained == microtasks = <<>>

\* the then-callbacks and the invocations that belong to emit call number id
ScheduledFor(id) == {i \in DOMAIN microtasks : microtasks[i].emit = id}
InvokedFor(id) == {i \in DOMAIN calls : calls[i].emit = id}

-----------------------------------------------------------------------------
(* C1 *)

\* the last two calls are on(names, f, c), made with nothing pending, and
\* emit(e) for a name e of names, and every scheduler turn has run
OnThenEmit(e, f, c) ==
    /\ Drained
    /\ Len(history) >= 2
    /\ Registers(history[Len(history) - 1], "on", e, f, c)
    /\ history[Len(history) - 1].quiet
    /\ Emits(history[Len(history)], e)

\* C1: whatever was registered before, on(e, f, c) made with nothing pending
\* and followed by emit(e) gives, once the scheduler turn has run, exactly
\* one invocation of f with context c
C1_OnThenEmitInvokesOnce ==
    \A e \in Events, f \in Listeners, c \in Contexts :
        OnThenEmit(e, f, c) => Invocations(emitCount, f, c) = 1

\* on after two earlier registrations, then emit: f was invoked once with c
\* and other listeners were invoked as well
C1_Witness ==
    \E e \in Events, f \in Listeners, c \in Contexts :
        /\ OnThenEmit(e, f, c)
        /\ Len(history) = 4
        /\ Invocations(emitCount, f, c) = 1
        /\ Len(calls) >= 2

-----------------------------------------------------------------------------
(* C2 *)

\* the last element of a non-empty sequence
Last(q) == q[Len(q)]

\* C2: a step in which emit returns invokes no listener; it appends one
\* then-callback per listener registered under each emitted name.  A listener
\* is invoked only by a later step that runs the oldest then-callback, and
\* running the then-callback of a listener bound with on always invokes it.
C2_EmitNeverInvokesSynchronously ==
    [][ /\ (emitCount' # emitCount =>
              /\ calls' = calls
              /\ Len(microtasks') >= Len(microtasks)
              /\ SubSeq(microtasks', 1, Len(microtasks)) = microtasks
              /\ \A e \in Names(Last(history')) :
                    \A r \in Range(_eventListeners[Last(history').self].at[e].items) :
                       \E i \in (Len(microtasks) + 1)..Len(microtasks') :
                          /\ microtasks'[i].listener = r
                          /\ microtasks'[i].eventName = e
                          /\ microtasks'[i].emit = emitCount')
        /\ (calls' # calls =>
              /\ history' = history
              /\ microtasks # <<>>
              /\ microtasks' = Tail(microtasks)
              /\ calls' = Append(calls, Call(Head(microtasks))))
        /\ (history' = history /\ microtasks' # microtasks
                /\ Head(microtasks).listener.callback \in Listeners =>
              calls' = Append(calls, Call(Head(microtasks))))
      ]_vars

\* emit has just returned: the then-callback of a listener bound to the
\* event is pending and nothing has been invoked for this emit
C2_Witness ==
    /\ history # <<>>
    /\ Last(history).op = "emit"
    /\ \E i \in ScheduledFor(emitCount) :
          microtasks[i].listener.callback \in Listeners
    /\ InvokedFor(emitCount) = {}

-----------------------------------------------------------------------------
(* C3 *)

\* call number i is once(e, f, c), made with nothing pending; no other call
\* binds f to e; the calls after it are emit(e), at least one; and every
\* scheduler turn has run
OnceThenEmits(i, e, f, c) ==
    /\ Registers(history[i], "once", e, f, c)
    /\ history[i].quiet
    /\ \A j \in DOMAIN history : j # i => ~Binds(history[j], e, f)
    /\ i < Len(history)
    /\ \A j \in (i + 1)..Len(history) : Emits(history[j], e)
    /\ Drained

\* C3: after once(e, f, c), with no other on/once call for f under e, any
\* number of emit(e) calls lead to exactly one invocation of f in total
C3_OnceFiresExactlyOnce ==
    \A e \in Events, f \in Listeners, c \in Contexts :
        \A i \in DOMAIN history :
            OnceThenEmits(i, e, f, c) => InvokedSince(EmitsUpTo(i), f) = 1

-----------------------------------------------------------------------------
(* C4 *)

\* C4: after on(e, f, c1) and on(e, f, c2) with different contexts, the
\* undefined context included, both registrations exist, and one emit(e)
\* invokes f once with c1 and once with c2
C4_DistinctByContext ==
    \A e \in Events, f \in Listeners, c1 \in Contexts :
      \A c2 \in Contexts \ {c1} :
        /\ (/\ Len(history) >= 2
            /\ Registers(history[Len(history) - 1], "on", e, f, c1)
            /\ history[Len(history) - 1].quiet
            /\ Registers(history[Len(history)], "on", e, f, c2))
           => /\ Registrations(history[Len(history)].self, e, f, c1) # {}
              /\ Registrations(history[Len(history)].self, e, f, c2) # {}
        /\ (/\ Len(history) >= 3
            /\ Registers(history[Len(history) - 2], "on", e, f, c1)
            /\ history[Len(history) - 2].quiet
            /\ Registers(history[Len(history) - 1], "on", e, f, c2)
            /\ Emits(history[Len(history)], e)
            /\ Drained)
           => /\ Invocations(emitCount, f, c1) = 1
              /\ Invocations(emitCount, f, c2) = 1

-----------------------------------------------------------------------------
(* C5 *)

\* the name e occurs more than once in the names of the call o
Repeated(o, e) ==
    Cardinality({i \in DOMAIN o.eventNames.items : o.eventNames.items[i] = e}) > 1

\* the calls before the last one end with on(e, f, c) made twice, or with one
\* on(names, f, c) that names e more than once
OnTwice(e, f, c) ==
    \/ /\ Len(history) >= 3
       /\ Registers(history[Len(history) - 2], "on", e, f, c)
       /\ history[Len(history) - 2].quiet
       /\ Registers(history[Len(history) - 1], "on", e, f, c)
    \/ /\ Len(history) >= 2
       /\ Registers(history[Len(history) - 1], "on", e, f, c)
       /\ history[Len(history) - 1].quiet
       /\ Repeated(history[Len(history) - 1], e)

\* C5: after on(names, f, c), made with nothing pending, there is exactly
\* one registration of (f, c) under each of the names, also when it is
\* called a second time with the same arguments and when a name is repeated
\* in the array; one emit(e) then invokes f with context c once
C5_OnIsIdempotent ==
    \A e \in Events, f \in Listeners, c \in Contexts :
        /\ (/\ history # <<>>
            /\ Registers(Last(history), "on", e, f, c)
            /\ Last(history).quiet)
           => Cardinality(Registrations(Last(history).self, e, f, c)) = 1
        /\ (/\ Drained
            /\ OnTwice(e, f, c)
            /\ Emits(Last(history), e))
           => Invocations(emitCount, f, c) = 1

\* on(e, f, c) was called twice with an object as context, emit(e) followed
\* and its scheduler turn ran: f was invoked once with c
C5_Witness ==
    \E e \in Events, f \in Listeners, c \in Contexts \ {Undefined} :
        /\ Len(history) >= 3
        /\ Registers(history[Len(history) - 2], "on", e, f, c)
        /\ Registers(history[Len(history) - 1], "on", e, f, c)
        /\ Emits(Last(history), e)
        /\ Drained
        /\ Invocations(emitCount, f, c) = 1

-----------------------------------------------------------------------------
(* C6 *)

\* call number i is once(e, f, c), made with nothing pending; the next call
\* is on(names, f, c) with e among the names; the calls after it are emit(d)
\* for one name d of names; no other call binds f to e or d
OnceThenOn(i, e, d, f, c) ==
    /\ i < Len(history)
    /\ Registers(history[i], "once", e, f, c)
    /\ history[i].quiet
    /\ Registers(history[i + 1], "on", e, f, c)
    /\ d \in Names(history[i + 1])
    /\ \A j \in DOMAIN history :
          j \notin {i, i + 1} => ~Binds(history[j], e, f) /\ ~Binds(history[j], d, f)
    /\ \A j \in (i + 2)..Len(history) : Emits(history[j], d)

\* C6: after once(e, f, c) followed by on(names, f, c), through any number
\* of emissions, every name of names holds exactly one registration of
\* (f, c), with f itself as callback; once the scheduler turns have run,
\* each emission has invoked f once, with context c
C6_OnOverridesOnce ==
    \A i \in Followed("once", "on") :
        \A e \in Names(history[i]), d \in Events :
          LET f == history[i].listener
              c == history[i].context
          IN
            OnceThenOn(i, e, d, f, c) =>
                /\ \A x \in Names(history[i + 1]) :
                      /\ Cardinality(Registrations(history[i].self, x, f, c)) = 1
                      /\ \A r \in Range(_eventListeners[history[i].self].at[x].items) :
                            r.listener = f /\ r.context = c => r.callback = f
                /\ Drained =>
                      /\ InvokedSince(EmitsUpTo(i), f) = Len(history) - (i + 1)
                      /\ \A id \in (EmitsUpTo(i) + 1)..emitCount :
                            Invocations(id, f, c) = 1

\* once(e, f, c); on(e, f, c); three emissions of e in three scheduler turns,
\* after other registrations: f was invoked three times
C6_Witness ==
    \E e \in Events, f \in Listeners, c \in Contexts :
        \E i \in DOMAIN history :
            /\ i > 1
            /\ OnceThenOn(i, e, e, f, c)
            /\ Len(history) = i + 4
            /\ \A j \in (i + 2)..Len(history) : history[j].quiet
            /\ Drained
            /\ InvokedSince(EmitsUpTo(i), f) = 3

-----------------------------------------------------------------------------
(* C7 *)

\* call number i is on(e, f, c), made with nothing pending; the next call is
\* once(e, f, c); the calls after it are emit(e); no other call binds f to e
OnThenOnce(i, e, f, c) ==
    /\ i < Len(history)
    /\ Registers(history[i], "on", e, f, c)
    /\ history[i].quiet
    /\ Registers(history[i + 1], "once", e, f, c)
    /\ \A j \in DOMAIN history : j \notin {i, i + 1} => ~Binds(history[j], e, f)
    /\ \A j \in (i + 2)..Len(history) : Emits(history[j], e)

\* the emissions after on(e, f, c); once(e, f, c) have each invoked f once
EachEmissionInvokes ==
    \A i \in Followed("on", "once") :
        \A e \in Names(history[i]) :
          LET f == history[i].listener
              c == history[i].context
          IN
            Drained /\ OnThenOnce(i, e, f, c) =>
                /\ InvokedSince(EmitsUpTo(i), f) = Len(history) - (i + 1)
                /\ \A id \in (EmitsUpTo(i) + 1)..emitCount :
                      Invocations(id, f, c) = 1

\* C7: a step in which once(e, f, c) returns while (e, f, c) is registered,
\* by on or by once, leaves the registry as it was; and after on(e, f, c);
\* once(e, f, c) every emission of e invokes f, three emissions three times
C7_OnceKeepsExistingRegistration ==
    [][ /\ (history' # history /\ Last(history').op = "once"
              /\ Registrations(Last(history').self,
                     Last(history').eventNames.items[1],
                     Last(history').listener, Last(history').context) # {}
            => _eventListeners' = _eventListeners)
        /\ EachEmissionInvokes'
      ]_vars

\* on(e, f); once(e, f); three emissions of e, all scheduler turns run: the
\* registration is still the one on made and f was invoked three times
C7_Witness ==
    \E e \in Events, f \in Listeners :
        \E i \in DOMAIN history :
            /\ OnThenOnce(i, e, f, Undefined)
            /\ Len(history) = i + 4
            /\ Drained
            /\ InvokedSince(EmitsUpTo(i), f) = 3
            /\ \E r \in Range(_eventListeners[history[i].self].at[e].items) :
                  r.listener = f /\ r.callback = f

-----------------------------------------------------------------------------
(* C8 *)

\* C8: when off(names, f) returns, no registration of f is left under any
\* of the names; an emit(e) that follows it, for a name e of names,
\* schedules no invocation of f
C8_OffListenerRemovesEveryContext ==
    \A e \in Events, f \in Listeners :
        /\ (/\ history # <<>>
            /\ Removes(Last(history), e, f, Undefined))
           => Bound(Last(history).self, e, f) = {}
        /\ (/\ Len(history) >= 2
            /\ Removes(history[Len(history) - 1], e, f, Undefined)
            /\ Emits(Last(history), e))
           => /\ \A i \in ScheduledFor(emitCount) : microtasks[i].listener.listener # f
              /\ \A i \in InvokedFor(emitCount) : calls[i].listener # f

\* f was bound to e by on with one context and by once with another,
\* off(e, f) and emit(e) followed and the scheduler turn ran without f
C8_Witness ==
    \E e \in Events, f \in Listeners, c \in Contexts \ {Undefined} :
        \E d \in Contexts \ {c} :
            /\ Len(history) = 4
            /\ Registers(history[1], "on", e, f, c)
            /\ Registers(history[2], "once", e, f, d)
            /\ Removes(history[3], e, f, Undefined)
            /\ Emits(history[4], e)
            /\ Drained
            /\ InvokedFor(emitCount) = {}

-----------------------------------------------------------------------------
(* C9 *)

\* the items of a list without the registrations of (f, c)
Without(items, f, c) ==
    LET other(r) == ~(r.listener = f /\ r.context = c)
    IN  SelectSeq(items, other)

\* the last four calls are on(e, f, d), made with nothing pending, on or
\* once of (e, f, c) for an object c other than d, off(names, f, c) with e
\* among the names, and emit(e); every scheduler turn has run
OffOneContext(e, f, c, d) ==
    /\ Drained
    /\ Len(history) >= 4
    /\ Registers(history[Len(history) - 3], "on", e, f, d)
    /\ history[Len(history) - 3].quiet
    /\ \/ Registers(history[Len(history) - 2], "on", e, f, c)
       \/ Registers(history[Len(history) - 2], "once", e, f, c)
    /\ Removes(history[Len(history) - 1], e, f, c)
    /\ Emits(Last(history), e)

\* f bound to e with a context other than c is invoked by the emit(e) that
\* follows off(e, f, c), and f is not invoked with c
OtherContextsStillFire ==
    \A e \in Events, f \in Listeners, c \in Contexts \ {Undefined} :
        \A d \in Contexts \ {c} :
            OffOneContext(e, f, c, d) =>
                /\ Invocations(emitCount, f, d) = 1
                /\ Invocations(emitCount, f, c) = 0

\* C9: a step in which off(names, f, c) returns, names being event names
\* (a first argument that is falsy is the reset of C35) and c an object, takes
\* the registrations of (f, c) out of the list of each of the names and
\* leaves every other registration where it was, those of f with other
\* contexts and with no context included; they fire on the next emit(e)
C9_OffContextRemovesExactTriple ==
    [][ /\ (history' # history /\ Last(history').op = "off"
              /\ ~FalsyNames(Last(history').eventNames)
              /\ Last(history').listener \in Listeners
              /\ Last(history').context # Undefined
            => \A e \in Events :
                  _eventListeners'[Last(history').self].at[e].items =
                     IF e \in Names(Last(history'))
                     THEN Without(_eventListeners[Last(history').self].at[e].items,
                                  Last(history').listener, Last(history').context)
                     ELSE _eventListeners[Last(history').self].at[e].items)
        /\ OtherContextsStillFire'
      ]_vars

\* on(e, f); on(e, f, c); off(e, f, c); emit(e), the scheduler turn run: f
\* was invoked once, without a context
C9_Witness ==
    \E e \in Events, f \in Listeners, c \in Contexts \ {Undefined} :
        /\ OffOneContext(e, f, c, Undefined)
        /\ Invocations(emitCount, f, Undefined) = 1
        /\ Invocations(emitCount, f, c) = 0
        /\ Registrations(Last(history).self, e, f, c) = {}

-----------------------------------------------------------------------------
(* C10 *)

\* the call o is off(names) with e among the names
RemovesAll(o, e) ==
    /\ o.self = Subject
    /\ o.op = "off" /\ e \in Names(o) /\ o.listener = Undefined

\* C10: when off(names) returns, the list of every name of names is empty;
\* an emit(e) that follows it, for a name e of names, schedules nothing
C10_OffNamesRemovesEverything ==
    \A e \in Events :
        /\ (/\ history # <<>>
            /\ RemovesAll(Last(history), e))
           => _eventListeners[Last(history).self].at[e].items = <<>>
        /\ (/\ Len(history) >= 2
            /\ RemovesAll(history[Len(history) - 1], e)
            /\ Emits(Last(history), e))
           => ScheduledFor(emitCount) = {} /\ InvokedFor(emitCount) = {}

\* listeners were bound to two events, off was given both names, one of
\* them was emitted and nothing was scheduled or invoked
C10_Witness ==
    \E e \in Events :
        /\ Len(history) = 4
        /\ \E f \in Listeners : Binds(history[1], e, f)
        /\ \E f \in Listeners : Binds(history[2], CHOOSE x \in Events : x # e, f)
        /\ RemovesAll(history[3], e)
        /\ Cardinality(Names(history[3])) = 2
        /\ Emits(history[4], e)
        /\ Drained
        /\ calls = <<>>

-----------------------------------------------------------------------------
(* C11 *)

\* the call o is off() with no arguments
RemovesEverything(o) == o.op = "off" /\ FalsyNames(o.eventNames)

\* C11: after off() the host has no registration under any event, and an
\* emit that follows it, of any names, schedules no invocation
C11_OffClearsInstance ==
    /\ (/\ history # <<>>
        /\ RemovesEverything(Last(history)))
       => \A e \in Events : _eventListeners[Last(history).self].at[e].items = <<>>
    /\ (/\ Len(history) >= 2
        /\ RemovesEverything(history[Len(history) - 1])
        /\ Last(history).op = "emit"
        /\ Last(history).self = history[Len(history) - 1].self)
       => ScheduledFor(emitCount) = {} /\ InvokedFor(emitCount) = {}

\* listeners were bound to both events, off() and an emit of both names
\* followed, and nothing was scheduled or invoked
C11_Witness ==
    /\ Len(history) = 4
    /\ \E f \in Listeners : Binds(history[1], "a", f)
    /\ \E f \in Listeners : Binds(history[2], "b", f)
    /\ RemovesEverything(history[3])
    /\ Last(history).op = "emit"
    /\ Names(Last(history)) = Events
    /\ Drained
    /\ calls = <<>>

-----------------------------------------------------------------------------
(* C12 *)

\* the items of a list that are not registrations of the listener f
OtherListeners(items, f) ==
    LET other(r) == r.listener # f
    IN  SelectSeq(items, other)

\* the last three calls are on(e, g, d), made with nothing pending,
\* off(names, f) or off(names, f, c) that does not name both g and e, and
\* emit(e); every scheduler turn has run
OffSomethingElse(e, g, d) ==
    /\ Drained
    /\ Len(history) >= 3
    /\ Registers(history[Len(history) - 2], "on", e, g, d)
    /\ history[Len(history) - 2].quiet
    /\ history[Len(history) - 1].op = "off"
    /\ history[Len(history) - 1].self = Subject
    /\ history[Len(history) - 1].listener \in Listeners
    /\ \/ history[Len(history) - 1].listener # g
       \/ e \notin Names(history[Len(history) - 1])
    /\ Emits(Last(history), e)

\* a listener that off did not name, or that is bound to an event off did
\* not name, is invoked by the next emit of its event
UnnamedStillFire ==
    \A e \in Events, g \in Listeners, d \in Contexts :
        OffSomethingElse(e, g, d) => Invocations(emitCount, g, d) = 1

\* C12: a step in which off(names, f) or off(names, f, c) returns, names
\* being event names (a first argument that is falsy is the reset of C35),
\* leaves the list of every event that is not in names as it was, and leaves the
\* registrations of the other listeners in the lists of the names, in
\* their order; those registrations fire on their next emit
C12_OffListenerFrame ==
    [][ /\ (history' # history /\ Last(history').op = "off"
              /\ ~FalsyNames(Last(history').eventNames)
              /\ Last(history').listener \in Listeners
            => \A e \in Events :
                  IF e \in Names(Last(history'))
                  THEN OtherListeners(
                           _eventListeners'[Last(history').self].at[e].items,
                           Last(history').listener)
                       = OtherListeners(
                           _eventListeners[Last(history').self].at[e].items,
                           Last(history').listener)
                  ELSE _eventListeners'[Last(history').self].at[e].items
                       = _eventListeners[Last(history').self].at[e].items)
        /\ UnnamedStillFire'
      ]_vars

\* f was bound to a and to b, off(a, f) removed the first registration, b
\* was emitted and f was invoked for it
C12_Witness ==
    /\ Len(history) = 4
    /\ Binds(history[1], "a", "f")
    /\ OffSomethingElse("b", "f", Undefined)
    /\ Removes(history[3], "a", "f", Undefined)
    /\ Bound("emitter1", "a", "f") = {}
    /\ Invocations(emitCount, "f", Undefined) = 1

-----------------------------------------------------------------------------
(* C13 *)

\* the emit call number id
EmitCall(id) ==
    history[CHOOSE i \in DOMAIN history :
                history[i].op = "emit" /\ EmitsUpTo(i) = id]

\* every invocation was made for an emit call of the host it was made on
InvokedOnEmittingHost ==
    \A i \in DOMAIN calls : EmitCall(calls[i].emit).self = calls[i].self

\* C13: a call on one host leaves the registrations of the other host as
\* they were and schedules only listeners registered on the host it was made
\* on; a then-callback that runs changes only the registrations of the host
\* whose emit scheduled it; every listener invocation belongs to an emit of
\* the host the listener was registered on
C13_InstancesAreIsolated ==
    [][ /\ (history' # history =>
              /\ \A h \in Hosts \ {Last(history').self} :
                    _eventListeners'[h] = _eventListeners[h]
              /\ \A i \in (Len(microtasks) + 1)..Len(microtasks') :
                    /\ microtasks'[i].self = Last(history').self
                    /\ microtasks'[i].listener \in
                          Range(_eventListeners[Last(history').self]
                                    .at[microtasks'[i].eventName].items))
        /\ (plan' = plan /\ microtasks # <<>> =>
              /\ \A h \in Hosts \ {Head(microtasks).self} :
                    _eventListeners'[h] = _eventListeners[h]
              /\ \A i \in (Len(calls) + 1)..Len(calls') :
                    calls'[i].self = Head(microtasks).self)
        /\ InvokedOnEmittingHost'
      ]_vars

\* the second host bound f, the first host called off() and the second host
\* emitted: f was invoked on the second host
C13_Witness ==
    /\ Len(history) = 3
    /\ history[1].self = "emitter2" /\ history[1].op = "on"
    /\ history[2].self = "emitter1" /\ RemovesEverything(history[2])
    /\ history[3].self = "emitter2" /\ history[3].op = "emit"
    /\ Drained
    /\ Len(calls) = 1
    /\ calls[1].self = "emitter2"
    /\ \A e \in Events : _eventListeners["emitter1"].at[e].items = <<>>

-----------------------------------------------------------------------------
(* C14 *)

\* every invocation was made under a name of the emit call it belongs to
InvokedUnderEmittedName ==
    \A i \in DOMAIN calls : calls[i].eventName \in Names(EmitCall(calls[i].emit))

\* C14: a step in which emit(names) returns schedules then-callbacks only
\* for registrations stored under one of the names; no listener is ever
\* invoked for an emit under a name that the emit was not given
C14_EmitOnlyNamedEvents ==
    [][ /\ (emitCount' # emitCount =>
              \A i \in (Len(microtasks) + 1)..Len(microtasks') :
                 /\ microtasks'[i].eventName \in Names(Last(history'))
                 /\ microtasks'[i].listener \in
                       Range(_eventListeners[Last(history').self]
                                 .at[microtasks'[i].eventName].items))
        /\ InvokedUnderEmittedName'
      ]_vars

\* f is bound to b only, a was emitted and its turn ran: another listener
\* was invoked and f was not
C14_Witness ==
    /\ history # <<>>
    /\ Emits(Last(history), "a")
    /\ Drained
    /\ Bound(Subject, "b", "f") # {}
    /\ \A j \in DOMAIN history : ~Binds(history[j], "a", "f")
    /\ InvokedFor(emitCount) # {}
    /\ \A i \in InvokedFor(emitCount) : calls[i].listener # "f"

-----------------------------------------------------------------------------
(* C15 *)

\* every invocation made and every then-callback pending carries the
\* arguments of the emit call it belongs to
ArgumentsOfEmit ==
    /\ \A i \in DOMAIN calls : calls[i].args = EmitCall(calls[i].emit).args
    /\ \A i \in DOMAIN microtasks :
          microtasks[i].eventArgs = EmitCall(microtasks[i].emit).args

\* C15: a then-callback that invokes a listener, bound with on or with
\* once, calls the function of its registration with the context of its
\* registration and the arguments of the emit call that scheduled it, also
\* while then-callbacks of emits with other arguments are pending
C15_InvokedWithArgsAndContext ==
    [][ /\ (calls' # calls =>
              /\ Len(calls') = Len(calls) + 1
              /\ Last(calls').listener = Head(microtasks).listener.listener
              /\ Last(calls').this = Head(microtasks).listener.context
              /\ Last(calls').args = Head(microtasks).eventArgs
              /\ Last(calls').emit = Head(microtasks).emit)
        /\ ArgumentsOfEmit'
      ]_vars

\* f was bound with a context, emit(a, x, y) and emit(a) were called in one
\* block, and f was invoked with that context for both, once with x, y and
\* once with no arguments
C15_Witness ==
    /\ Drained
    /\ Len(history) >= 3
    /\ Last(history).sync
    /\ Emits(Last(history), "a")
    /\ \E i \in InvokedFor(emitCount - 1), j \in InvokedFor(emitCount) :
          /\ calls[i].listener = "f" /\ calls[j].listener = "f"
          /\ calls[i].this = "c1" /\ calls[j].this = "c1"
          /\ calls[i].args = <<"x", "y">> /\ calls[j].args = <<>>

-----------------------------------------------------------------------------
(* C16 *)

\* call number i is on(e, f, c), made with nothing pending, and the calls
\* after it are emit(e), all of them in one synchronous block
OnThenEmits(i, e, f, c) ==
    /\ i < Len(history)
    /\ Registers(history[i], "on", e, f, c)
    /\ history[i].quiet
    /\ \A j \in (i + 1)..Len(history) :
          Emits(history[j], e) /\ (j > i + 1 => history[j].sync)

\* the then-callbacks pending for emit call number id that invoke f with c
Pending(id, f, c) ==
    {i \in ScheduledFor(id) :
        /\ microtasks[i].listener.listener = f
        /\ microtasks[i].listener.context = c}

\* C16: after on(e, f, c) and n emit(e) calls made in one synchronous block,
\* every one of the n emit calls has its own invocation of f with c,
\* pending or made; after the scheduler turn f has been invoked n times
C16_OneInvocationPerEmit ==
    \A i \in Followed("on", "emit") :
        \A e \in Names(history[i]) :
          LET f == history[i].listener
              c == history[i].context
          IN
            OnThenEmits(i, e, f, c) =>
                /\ emitCount - EmitsUpTo(i) = Len(history) - i
                /\ \A id \in (EmitsUpTo(i) + 1)..emitCount :
                      Cardinality(Pending(id, f, c)) + Invocations(id, f, c) = 1

\* after other registrations, on(e, f, c) and three emit(e) calls in one
\* block: the turn has run and f was invoked three times with c
C16_Witness ==
    \E e \in Events, f \in Listeners, c \in Contexts :
        \E i \in DOMAIN history :
            /\ i > 1
            /\ OnThenEmits(i, e, f, c)
            /\ Len(history) = i + 3
            /\ Drained
            /\ \A id \in 1..3 : Invocations(id, f, c) = 1

-----------------------------------------------------------------------------
(* C17 *)

\* C17: whatever else is registered, once(e, f, c) made with nothing pending
\* and followed by emit(e) gives, once the scheduler turn has run, exactly
\* one invocation of f with context c
C17_OnceDeliversWithContext ==
    \A e \in Events, f \in Listeners, c \in Contexts :
        (/\ Drained
         /\ Len(history) >= 2
         /\ Registers(history[Len(history) - 1], "once", e, f, c)
         /\ history[Len(history) - 1].quiet
         /\ Emits(Last(history), e))
        => Invocations(emitCount, f, c) = 1

-----------------------------------------------------------------------------
(* C18 *)

\* the call o is an off call of the subject that removes the registration
\* of (e, f, c): off(), off(names), off(names, f) or off(names, f, c) with
\* e among the names
Unregisters(o, e, f, c) ==
    /\ o.self = Subject
    /\ \/ RemovesEverything(o)
       \/ RemovesAll(o, e)
       \/ Removes(o, e, f, Undefined)
       \/ Removes(o, e, f, c)

\* call number i is kind(e, f, c), made with nothing pending; the next call
\* is emit(e); the call after it, in the same block as the emit, is an off
\* call that removes the registration; the calls after it are emit(e)
ThenEmitThenOff(i, kind, e, f, c) ==
    /\ i + 2 <= Len(history)
    /\ Registers(history[i], kind, e, f, c)
    /\ history[i].quiet
    /\ Emits(history[i + 1], e)
    /\ Unregisters(history[i + 2], e, f, c)
    /\ history[i + 2].sync
    /\ \A j \in (i + 3)..Len(history) : Emits(history[j], e)

\* C18: when on(e, f, c) and emit(e) are followed, before the turn runs, by
\* an off call that removes the registration, the invocation that the emit
\* scheduled stays pending until it is made, and the emits after the off
\* schedule no invocation of f with c
C18_ScheduledOnListenerSurvivesOff ==
    \A i \in Followed("on", "emit") :
        \A e \in Names(history[i]) :
          LET f == history[i].listener
              c == history[i].context
          IN
            ThenEmitThenOff(i, "on", e, f, c) =>
                /\ Cardinality(Pending(EmitsUpTo(i) + 1, f, c))
                      + Invocations(EmitsUpTo(i) + 1, f, c) = 1
                /\ \A id \in (EmitsUpTo(i) + 2)..emitCount :
                      Pending(id, f, c) = {} /\ Invocations(id, f, c) = 0

\* on(e, f, c); emit(e); off() in the same block; emit(e); the turns have
\* run: f was invoked for the first emit and not for the second
C18_Witness ==
    \E e \in Events, f \in Listeners, c \in Contexts :
        /\ Len(history) = 4
        /\ ThenEmitThenOff(1, "on", e, f, c)
        /\ RemovesEverything(history[3])
        /\ Drained
        /\ Invocations(1, f, c) = 1
        /\ Invocations(2, f, c) = 0

-----------------------------------------------------------------------------
(* C19 *)

\* call number i is once(e, f, c), made with nothing pending; the next call
\* is emit(e); the call after it, in the same block as the emit, is an off
\* call that removes the registration; the calls after it, whatever they
\* are, are made in the same block, before the turn runs
OnceEmitOffThenAnything(i, e, f, c) ==
    /\ i + 2 <= Len(history)
    /\ Registers(history[i], "once", e, f, c)
    /\ history[i].quiet
    /\ Emits(history[i + 1], e)
    /\ Unregisters(history[i + 2], e, f, c)
    /\ \A j \in (i + 2)..Len(history) : history[j].sync

\* C19: when once(e, f, c) and emit(e) are followed, before the turn runs,
\* by an off call that removes the registration, the pending invocation
\* never calls f, whatever calls are made before the turn runs, a new
\* registration of (e, f, c) included
C19_RemovedOnceIsSkipped ==
    \A i \in Followed("once", "emit") :
        \A e \in Names(history[i]) :
          LET f == history[i].listener
              c == history[i].context
          IN
            OnceEmitOffThenAnything(i, e, f, c) =>
                Invocations(EmitsUpTo(i) + 1, f, c) = 0

-----------------------------------------------------------------------------
(* C20 *)

\* the last three calls are once(e, g, d), made with nothing pending,
\* on(e, f, c) for another listener f, and emit(e); every turn has run
OnceOnOtherThenEmit(e, g, d, f, c) ==
    /\ Drained
    /\ Len(history) >= 3
    /\ Registers(history[Len(history) - 2], "once", e, g, d)
    /\ history[Len(history) - 2].quiet
    /\ Registers(history[Len(history) - 1], "on", e, f, c)
    /\ f # g
    /\ Emits(Last(history), e)

\* the listener scheduled after one that may have thrown is invoked
LaterListenerInvoked ==
    Drained /\ Len(history) >= 3 /\ Last(history).op = "emit" =>
        \A e \in Names(Last(history)), g \in Listeners, d \in Contexts :
            \A f \in Listeners \ {g}, c \in Contexts :
                OnceOnOtherThenEmit(e, g, d, f, c) =>
                    /\ Invocations(emitCount, g, d) = 1
                    /\ Invocations(emitCount, f, c) = 1

\* C20: a step in which a then-callback runs, whether its listener returns
\* or throws, takes that one then-callback out of the queue and leaves the
\* others pending, and it changes nothing for the caller of emit: the calls
\* that returned and the number of emits are as they were; the listeners
\* scheduled after a listener that threw are invoked
C20_ListenersAreIsolated ==
    [][ /\ (plan' = plan /\ microtasks # <<>> =>
              /\ microtasks' = Tail(microtasks)
              /\ history' = history
              /\ emitCount' = emitCount
              /\ Len(calls') <= Len(calls) + 1
              /\ SubSeq(calls', 1, Len(calls)) = calls)
        /\ LaterListenerInvoked'
      ]_vars

\* once(e, g); on(e, f, c); emit(e): g threw, so its once registration is
\* still there, and f was invoked after it
C20_Witness ==
    \E e \in Events, g \in Listeners, f \in Listeners, c \in Contexts :
        /\ OnceOnOtherThenEmit(e, g, Undefined, f, c)
        /\ Invocations(emitCount, g, Undefined) = 1
        /\ Invocations(emitCount, f, c) = 1
        /\ Last(calls).listener = f
        /\ \E r \in Range(_eventListeners[Subject].at[e].items) :
              r.listener = g /\ r.callback = "oneOffEventListener"

-----------------------------------------------------------------------------
(* C21 *)

\* eventNames is a string or a non-empty array whose elements are all strings
ValidNames(n) ==
    \/ n.type = "string"
    \/ /\ n.type = "array"
       /\ n.items # <<>>
       /\ \A i \in DOMAIN n.items : n.items[i] \in Strings

\* C21: the latest call threw if it was on or emit with an eventNames that is
\* neither a string nor a non-empty array of strings, if it was once with an
\* eventName that is not a string, or if it was on or once with a listener
\* that is not a function; an off call never threw.
C21_ValidationErrors ==
    LET o == outcome.call
    IN  /\ (o.op \in {"on", "emit"} /\ ~ValidNames(o.eventNames)) => outcome.threw
        /\ (o.op = "once" /\ o.eventNames.type # "string") => outcome.threw
        /\ (o.op \in {"on", "once"} /\ o.listener \notin Listeners)
               => outcome.threw
        /\ o.op = "off" => ~outcome.threw

\* on with an empty array of names threw
C21_Witness ==
    /\ outcome.call.op = "on"
    /\ outcome.call.eventNames = Arr(<<>>)
    /\ outcome.call.listener = "f"
    /\ outcome.threw

-----------------------------------------------------------------------------
(* C22 *)

\* C22: a call of on, once or emit that throws leaves the registry of every
\* host and the pending then-callbacks as they were before the call.
C22_FailedCallHasNoEffect ==
    [][(/\ plan' # plan
        /\ outcome'.threw
        /\ outcome'.call.op \in {"on", "once", "emit"})
          => (/\ _eventListeners' = _eventListeners
              /\ microtasks' = microtasks
              /\ history' = history)]_vars

\* on([a, undefined], f) threw while then-callbacks were pending, and f is
\* not registered for a
C22_Witness ==
    /\ outcome.threw
    /\ outcome.call.op = "on"
    /\ outcome.call.eventNames = Arr(<<"a", Undefined>>)
    /\ outcome.call.listener = "f"
    /\ microtasks # <<>>
    /\ _eventListeners[Subject].at["a"].items # <<>>
    /\ Bound(Subject, "a", "f") = {}

-----------------------------------------------------------------------------
(* C23 *)

\* the last call but k of the history
Back(k) == history[Len(history) - k]

\* C23: the string 'a b' names the events a and b.  After on('a b', f, c)
\* and emit(e) for e one of a and b, f has been invoked once for that emit;
\* after on(a, f, c) and emit('a b'), f has been invoked once for that emit;
\* after on(a, f, c), off('a b') and emit(a), f has not been invoked.
C23_SpaceDelimitedNames ==
    \A f \in Listeners, c \in Contexts :
        /\ (/\ Drained /\ Len(history) >= 2
            /\ Registers(Back(1), "on", "a b", f, c) /\ Back(1).quiet
            /\ (Emits(Back(0), "a") \/ Emits(Back(0), "b")))
              => Invocations(EmitsUpTo(Len(history)), f, c) = 1
        /\ (/\ Drained /\ Len(history) >= 2
            /\ Registers(Back(1), "on", "a", f, c) /\ Back(1).quiet
            /\ Emits(Back(0), "a b"))
              => Invocations(EmitsUpTo(Len(history)), f, c) = 1
        /\ (/\ Drained /\ Len(history) >= 3
            /\ Registers(Back(2), "on", "a", f, c) /\ Back(2).quiet
            /\ Removes(Back(1), "a b", Undefined, Undefined)
            /\ Emits(Back(0), "a"))
              => Invocations(EmitsUpTo(Len(history)), f, c) = 0

-----------------------------------------------------------------------------
(* C24 *)

\* C24: when the latest call is once('a b', f, c), it threw, and nothing is
\* registered for f under 'a b', a or b.
C24_OnceRejectsSeveralNames ==
    (/\ outcome.call.op = "once"
     /\ outcome.call.eventNames = Str("a b"))
       => /\ outcome.threw
          /\ \A e \in Strings :
                 Bound(outcome.call.self, e, outcome.call.listener) = {}

-----------------------------------------------------------------------------
(* C25 *)

\* the call that ends in this step is kind(e, ...) on a host that has no
\* registration under the string e
Unknown(kind, e) ==
    /\ plan' # plan
    /\ outcome'.call.op = kind
    /\ outcome'.call.eventNames = Str(e)
    /\ outcome'.call.self \in Hosts
    /\ _eventListeners[outcome'.call.self].at[e].items = <<>>

\* C25: emit(e) of a string e without registrations returns and schedules
\* nothing; off(e, ...) of such an e returns and leaves the registrations of
\* every other event and of every host as they were.
C25_UnknownNamesAreNoOps ==
    [][\A e \in Strings :
          /\ Unknown("emit", e)
                => /\ ~outcome'.threw
                   /\ microtasks' = microtasks
                   /\ calls' = calls
          /\ Unknown("off", e)
                => /\ ~outcome'.threw
                   /\ \A h \in Hosts, d \in Keys :
                          _eventListeners'[h].at[d].items
                              = _eventListeners[h].at[d].items]_vars

\* once(a, f, c) fired for a first emit(a); a second emit(a), made with
\* nothing pending, found the list of a empty and invoked nothing
C25_Witness ==
    /\ Drained
    /\ Len(history) >= 3
    /\ \E c \in Contexts : Registers(Back(2), "once", "a", "f", c)
    /\ Emits(Back(1), "a")
    /\ Emits(Back(0), "a") /\ Back(0).quiet
    /\ outcome.call.op = "emit" /\ ~outcome.threw
    /\ _eventListeners[Subject].at["a"] = List(<<>>)
    /\ InvokedFor(EmitsUpTo(Len(history)) - 1) # {}
    /\ InvokedFor(EmitsUpTo(Len(history))) = {}

-----------------------------------------------------------------------------
(* C26 *)

\* the registry of the host and the pending then-callbacks after the call o
\* made as a statement of its own on the host
Separately(o) ==
    LET hash == _eventListeners[Subject]
    IN  CASE o.op = "on" ->
               [hash |-> onCall(Subject, hash, o.eventNames, o.listener,
                                o.context).hash,
                queue |-> microtasks]
          [] o.op = "once" ->
               [hash |-> onceCall(Subject, hash, o.eventNames, o.listener,
                                  o.context).hash,
                queue |-> microtasks]
          [] o.op = "off" ->
               [hash |-> offCall(Subject, hash, o.eventNames, o.listener,
                                 o.context).hash,
                queue |-> microtasks]
          [] o.op = "emit" ->
               LET r == emitCall([hash |-> hash, queue |-> microtasks,
                                  called |-> calls],
                                 Subject, o.eventNames, o.args, emitCount + 1)
               IN  [hash |-> r.st.hash, queue |-> r.st.queue]

\* C26: every call that does not throw returns the host it was made on, and
\* a chained call is made on the host of the chain, returns, and leaves the
\* registry and the pending then-callbacks as the same call made as a
\* statement of its own would.
C26_Chainable ==
    [][/\ (plan' # plan /\ ~outcome'.threw)
             => /\ outcome'.call.self \in Hosts
                /\ outcome'.returned = outcome'.call.self
       /\ (plan' # plan /\ Head(plan).chain)
             => /\ ~outcome'.threw
                /\ outcome'.call.self = Subject
                /\ _eventListeners'[Subject] = Separately(Head(plan)).hash
                /\ microtasks' = Separately(Head(plan)).queue
                /\ Len(history') = Len(history) + 1]_vars

\* the chain on(a, f, c).emit(a).off(a, f, c).emit(a) has ended and f was
\* invoked for the first emit alone
C26_Witness ==
    /\ plan = <<>>
    /\ Drained
    /\ Len(history) = 4
    /\ outcome.call.chain /\ ~outcome.threw
    /\ history[1].op = "on" /\ history[2].op = "emit"
    /\ history[3].op = "off" /\ history[4].op = "emit"
    /\ \A i \in 2..4 : history[i].chain
    /\ Cardinality(InvokedFor(1)) = 1
    /\ InvokedFor(2) = {}

-----------------------------------------------------------------------------
(* C27 *)

\* C27: in the list of every event name of every host, no two registrations
\* have the same listener and the same context.
C27_NoDuplicateRegistrations ==
    \A h \in Hosts, e \in Keys :
        LET items == _eventListeners[h].at[e].items
        IN  \A i \in DOMAIN items, j \in DOMAIN items :
                (/\ items[i].listener = items[j].listener
                 /\ items[i].context = items[j].context) => i = j

\* after once(a, f), on(a, f, c1) and once(a, f, c1), the list of a holds f
\* twice, once per context
C27_Witness ==
    /\ Len(history) >= 3
    /\ Registers(Back(2), "once", "a", "f", Undefined)
    /\ Registers(Back(1), "on", "a", "f", "c1")
    /\ Registers(Back(0), "once", "a", "f", "c1")
    /\ Len(_eventListeners[Subject].at["a"].items) = 2
    /\ Cardinality(Bound(Subject, "a", "f")) = 2
    /\ Cardinality(Registrations(Subject, "a", "f", "c1")) = 1

-----------------------------------------------------------------------------
(* C28 *)

\* the registration that on(e, f, c) makes is in the registry of host h:
\* its callback is the listener itself
OnRegistered(h, e, f, c) ==
    \E i \in DOMAIN _eventListeners[h].at[e].items :
        _eventListeners[h].at[e].items[i]
            = [callback |-> f, listener |-> f, context |-> c]

\* this step is a scheduler turn: the oldest then-callback runs, and it was
\* scheduled on host h for a registration of (e, f, c)
TurnOf(h, e, f, c) ==
    /\ plan' = plan
    /\ microtasks # <<>>
    /\ microtasks' = Tail(microtasks)
    /\ Head(microtasks).self = h
    /\ Head(microtasks).eventName = e
    /\ Head(microtasks).listener.listener = f
    /\ Head(microtasks).listener.context = c

-----------------------------------------------------------------------------
(* C29 *)

\* this step is a scheduler turn in which the wrapper of once(e, f, c) on
\* host h invokes f
WrapperFires(h, e, f, c) ==
    /\ TurnOf(h, e, f, c)
    /\ Head(microtasks).listener.callback = "oneOffEventListener"
    /\ calls' # calls

\* the registrations of f with context d in the list of e of host h
Entries(h, e, f, d) ==
    {r \in Range(_eventListeners[h].at[e].items) :
        r.listener = f /\ r.context = d}

\* C29: when the wrapper of once(e, f, c) fires, the registrations of f
\* under e with a context other than c, made by on or by once, stay in the
\* registry, also when c is undefined.
C29_WrapperRemovesOnlyItsTriple ==
    [][\A h \in Hosts, e \in Events, f \in Listeners, c \in Contexts :
          WrapperFires(h, e, f, c)
            => \A d \in Contexts \ {c} :
                   Entries(h, e, f, d)' = Entries(h, e, f, d)]_vars

-----------------------------------------------------------------------------
(* C30 *)

\* C30: when the wrapper of once(e, f, c) has invoked f, the registration of
\* (e, f, c) is out of the registry, whether f returned or threw.
C30_WrapperRemovesAfterThrow ==
    [][\A h \in Hosts, e \in Events, f \in Listeners, c \in Contexts :
          WrapperFires(h, e, f, c) => Entries(h, e, f, c)' = {}]_vars

-----------------------------------------------------------------------------
(* C31 *)

\* the invocations of f with this = c made on host h on behalf of event e
InvokedOnBehalf(h, e, f, c) ==
    {i \in DOMAIN calls :
        /\ calls[i].self = h /\ calls[i].eventName = e
        /\ calls[i].listener = f /\ calls[i].this = c}

\* the emit calls on host h that named e while (e, f, c) was registered
EmitCallsWhile(h, e, f, c) ==
    {id \in DOMAIN emitted :
        /\ emitted[id].self = h
        /\ e \in Range(emitted[id].names)
        /\ \E r \in Range(emitted[id].at[e].items) :
               r.listener = f /\ r.context = c}

\* the places where such an emit call named e: the call and the position of
\* e among its names
EmissionsWhile(h, e, f, c) ==
    UNION {{<<id, k>> : k \in {j \in DOMAIN emitted[id].names :
                                  emitted[id].names[j] = e}} :
           id \in EmitCallsWhile(h, e, f, c)}

\* C31 as stated: f has been invoked with context c on behalf of e at most
\* as many times as emit was called for e while (e, f, c) was registered.
C31_AtMostOncePerEmitCall ==
    \A i \in DOMAIN calls :
        LET x == calls[i]
        IN  Cardinality(InvokedOnBehalf(x.self, x.eventName, x.listener, x.this))
              <= Cardinality(EmitCallsWhile(x.self, x.eventName, x.listener,
                                            x.this))

\* C31, amended: f has been invoked with context c on behalf of e at most
\* as many times as e was named in emit calls made while (e, f, c) was
\* registered, a name that an array holds twice counting twice.
C31_NoSpuriousInvocation ==
    \A i \in DOMAIN calls :
        LET x == calls[i]
        IN  Cardinality(InvokedOnBehalf(x.self, x.eventName, x.listener, x.this))
              <= Cardinality(EmissionsWhile(x.self, x.eventName, x.listener,
                                            x.this))

\* on(a, f, c) and emit([a, a]): f has been invoked twice for the one call
C31_Witness ==
    /\ Drained
    /\ Len(emitted) >= 1
    /\ emitted[1].names = <<"a", "a">>
    /\ \E c \in Contexts :
          /\ Cardinality(InvokedOnBehalf(Subject, "a", "f", c)) = 2
          /\ Cardinality(EmitCallsWhile(Subject, "a", "f", c)) = 1
          /\ Cardinality(EmissionsWhile(Subject, "a", "f", c)) = 2

-----------------------------------------------------------------------------
(* C32 *)

RECURSIVE Snapshot(_, _)
\* the registrations under the names of an emit call, name by name, each
\* with its name
Snapshot(names, at) ==
    IF names = <<>>
    THEN <<>>
    ELSE [i \in DOMAIN at[Head(names)].items |->
             <<Head(names), at[Head(names)].items[i]>>]
         \o Snapshot(Tail(names), at)

\* every invocation made on behalf of an emit call is one of a listener and
\* context that were registered under the event when that call was made
InvokedFromSnapshot ==
    \A i \in DOMAIN calls :
        \E r \in Range(emitted[calls[i].emit].at[calls[i].eventName].items) :
            r.listener = calls[i].listener /\ r.context = calls[i].this

\* C32: the then-callbacks that an emit call schedules are those of the
\* registrations under its names at the moment of the call, one each, and a
\* listener that was not registered then is never invoked on behalf of it.
C32_EmitTakesSnapshot ==
    [][ /\ (Len(emitted') > Len(emitted) =>
              LET new == SubSeq(microtasks', Len(microtasks) + 1,
                                Len(microtasks'))
                  o == Last(history')
              IN  /\ [i \in DOMAIN new |->
                         <<new[i].eventName, new[i].listener>>]
                       = Snapshot(o.eventNames.items, _eventListeners[o.self].at)
                  /\ \A i \in DOMAIN new : new[i].emit = Len(emitted'))
        /\ InvokedFromSnapshot'
      ]_vars

\* on(a, f, c); emit(a); g registered for a while the then-callback of f was
\* pending; emit(a): g was invoked for the second emit alone
C32_Witness ==
    /\ Drained
    /\ Len(history) = 4
    /\ Registers(history[1], "on", "a", "f", history[1].context)
    /\ Emits(history[2], "a")
    /\ Binds(history[3], "a", "g") /\ ~history[3].quiet
    /\ Emits(history[4], "a")
    /\ Invocations(1, "g", Undefined) = 0
    /\ Invocations(2, "g", Undefined) = 1
    /\ Cardinality(InvokedFor(1)) = 1

-----------------------------------------------------------------------------
(* C33 *)

\* the invocation x is one of the listener and context of the registration
\* y[2], on behalf of the event y[1]
IsOf(x, y) ==
    /\ x.eventName = y[1]
    /\ x.listener = y[2].listener
    /\ x.this = y[2].context

RECURSIVE Embeds(_, _)
\* the invocations s are of the registrations t, in their order, with some
\* registrations left out
Embeds(s, t) ==
    IF s = <<>> THEN TRUE
    ELSE IF t = <<>> THEN FALSE
    ELSE IF IsOf(Head(s), Head(t)) THEN Embeds(Tail(s), Tail(t))
    ELSE Embeds(s, Tail(t))

\* the invocations made for emit call number id, in the order they were made
InvokedInOrder(id) ==
    LET mine(x) == x.emit = id
    IN  SelectSeq(calls, mine)

\* the listeners emit call number id found, in the order of its names and,
\* for one name, in the order of the list of the event
FoundInOrder(id) == Snapshot(emitted[id].names, emitted[id].at)

\* the latest invocation belongs to the same emit call as the one before it
\* or to a later one, and the invocations of its emit call are in the order
\* in which that call found the listeners
InvokedAsScheduled ==
    calls # <<>> =>
        LET n == Len(calls)
        IN  /\ n >= 2 => calls[n - 1].emit <= calls[n].emit
            /\ Embeds(InvokedInOrder(calls[n].emit), FoundInOrder(calls[n].emit))

\* the pending then-callbacks are in the order of the emit calls, and the
\* oldest of them belongs to no earlier emit call than the latest invocation
PendingAsScheduled ==
    microtasks # <<>> =>
        /\ \A i \in 1..(Len(microtasks) - 1) :
               microtasks[i].emit <= microtasks[i + 1].emit
        /\ calls # <<>> => Last(calls).emit <= Head(microtasks).emit

-----------------------------------------------------------------------------
(* C34 *)

\* C34: a then-callback leaves the queue only when it is the oldest and
\* runs, one per turn, so none is dropped or run twice; every then-callback
\* that emit scheduled is eventually run; and from some moment on nothing is
\* pending.
C34_EveryInvocationRuns ==
    /\ [][ /\ plan' = plan => microtasks' = Tail(microtasks)
           /\ plan' # plan =>
                 /\ Len(microtasks') >= Len(microtasks)
                 /\ SubSeq(microtasks', 1, Len(microtasks)) = microtasks
         ]_vars
    /\ (microtasks # <<>>) ~> Drained
    /\ <>[]Drained

\* emit(a), emit([a, b]) and off(a, f) were made in one block, emit(a)
\* later: the program has ended, the then-callbacks of the first two emits
\* have invoked listeners, and nothing is pending
C34_Witness ==
    /\ Drained
    /\ plan = <<>>
    /\ Len(emitted) = 3
    /\ Len(history) >= 4
    /\ Back(2).op = "emit" /\ Back(2).sync
    /\ Back(1).op = "off" /\ Back(1).sync
    /\ InvokedFor(1) # {}
    /\ InvokedFor(2) # {}

-----------------------------------------------------------------------------
(* C35 *)

\* the first argument n of off is omitted, undefined, null or ''
FalsyArgument(n) ==
    n = NoNames \/ n = NullNames \/ n = Str("")

\* C35: off with a falsy first argument leaves no registration under any
\* event of the host, whatever listener and context it is given; off with
\* an empty array leaves the registrations of the host as they were.
C35_OffResetsOnFalsyNames ==
    [][(plan' # plan /\ outcome'.call.op = "off" /\ outcome'.call.self \in Hosts)
         => LET o == outcome'.call
            IN  /\ ~outcome'.threw
                /\ FalsyArgument(o.eventNames) =>
                       \A e \in Keys :
                           _eventListeners'[o.self].at[e].items = <<>>
                /\ o.eventNames = Arr(<<>>) =>
                       \A e \in Keys :
                           _eventListeners'[o.self].at[e].items
                               = _eventListeners[o.self].at[e].items]_vars

\* g was bound to a, and off('', f, c1) has just emptied the registry
C35_Witness ==
    /\ Len(history) = 3
    /\ Binds(history[1], "a", "g")
    /\ Binds(history[2], "b", "f")
    /\ history[3].op = "off"
    /\ history[3].eventNames = Str("")
    /\ history[3].listener = "f" /\ history[3].context = "c1"
    /\ \A e \in Keys : _eventListeners[Subject].at[e].items = <<>>

-----------------------------------------------------------------------------
(* C36 *)

\* C36: off(names, listener, c) with a falsy listener and a context c leaves
\* no registration under any of the names, whatever the listeners and the
\* contexts of the registrations were.
C36_OffWithoutListenerIgnoresContext ==
    [][(/\ plan' # plan
        /\ outcome'.call.op = "off"
        /\ outcome'.call.self \in Hosts
        /\ ValidNames(outcome'.call.eventNames)
        /\ ~FalsyNames(outcome'.call.eventNames)
        /\ Falsy(outcome'.call.listener)
        /\ outcome'.call.context # Undefined)
         => LET o == outcome'.call
            IN  /\ ~outcome'.threw
                /\ \A e \in Names(o) :
                       _eventListeners'[o.self].at[e].items = <<>>]_vars

\* g was bound to a with no context and f to b, and off([a, b], null, c1)
\* has just removed both
C36_Witness ==
    /\ Len(history) = 3
    /\ Binds(history[1], "a", "g") /\ history[1].context = Undefined
    /\ Binds(history[2], "b", "f") /\ history[2].context = Undefined
    /\ history[3].op = "off"
    /\ history[3].eventNames = Arr(<<"a", "b">>)
    /\ history[3].listener = Null /\ history[3].context = "c1"
    /\ \A e \in Events : _eventListeners[Subject].at[e].items = <<>>

-----------------------------------------------------------------------------
(* C37 *)

\* C37: a call of emit that returns leaves, for every host and every event
\* name, the sequence of registrations as it was; it invokes no listener, and
\* the pending invocations after the call are those before it followed by
\* the new ones.
C37_EmitKeepsRegistrations ==
    [][(plan' # plan /\ outcome'.call.op = "emit" /\ ~outcome'.threw
        /\ outcome'.call.self \in Hosts)
         => /\ \A h \in Hosts : \A e \in Keys :
                   _eventListeners'[h].at[e].items = _eventListeners[h].at[e].items
            /\ calls' = calls
            /\ Len(microtasks') >= Len(microtasks)
            /\ SubSeq(microtasks', 1, Len(microtasks)) = microtasks]_vars

\* emit(a) has just returned: a once registration of a is still in place and
\* its invocation is pending
C37_Witness ==
    /\ history # <<>>
    /\ outcome.call = history[Len(history)]
    /\ Emits(outcome.call, "a")
    /\ microtasks # <<>>
    /\ microtasks[Len(microtasks)].emit = emitCount
    /\ \E i \in DOMAIN _eventListeners[Subject].at["a"].items :
           _eventListeners[Subject].at["a"].items[i].callback = "oneOffEventListener"

-----------------------------------------------------------------------------
(* C38 *)

\* C38: a call of on, once or off, whether it returns or throws, invokes no
\* listener, starts no emission and leaves the pending invocations exactly
\* as they were, in number and in order.
C38_RegistrationCallsEmitNothing ==
    [][(plan' # plan /\ outcome'.call.op \in {"on", "once", "off"})
         => /\ calls' = calls
            /\ microtasks' = microtasks
            /\ emitCount' = emitCount
            /\ emitted' = emitted]_vars

\* f was bound to a, emit(a) was called, and off(a, f) has returned while
\* the invocation of f is still pending
C38_Witness ==
    /\ Len(history) >= 3
    /\ Binds(Back(2), "a", "f")
    /\ Emits(Back(1), "a")
    /\ Back(0).op = "off" /\ Back(0).self = Subject
    /\ Back(0).eventNames = Str("a") /\ Back(0).listener = "f"
    /\ outcome.call.op = "off" /\ outcome.call.listener = "f"
    /\ ~outcome.threw
    /\ microtasks # <<>>
    /\ microtasks[1].listener.listener = "f"
    /\ _eventListeners[Subject].at["a"].items = <<>>

====
